---- MODULE Spec2Model ----
(***************************************************************************)
(* Model of SubLocalizer's translation orchestration layer:                *)
(*   utils/text.py        deduplicate_texts, _find_match, _sequence_ratio  *)
(*   utils/batching.py    chunk_by_char_limit                              *)
(*   utils/cache.py       make_cache_key, SessionCache, TranslationMemory  *)
(*   translator/orchestrator.py  TranslationOrchestrator                   *)
(*   translator/deepl_api.py, deepl_web.py  translate_texts                *)
(*   translator/google.py GoogleTranslator                                 *)
(*                                                                         *)
(* Strings are sequences of one-character strings; "" is << >>.            *)
(* Python list indexes are 0-based, the model's are 1-based: index i of    *)
(* the source is index i+1 here.                                           *)
(***************************************************************************)
EXTENDS Integers, Sequences, FiniteSets, TLC

(***************************************************************************)
(* Bounds of the model.                                                    *)
(***************************************************************************)
MaxTextLen == 2
MaxDedupTexts == 3
MaxItemLen == 3
MaxPlanItems == 4
MaxPlanChars == 4
MaxPlanBatchSize == 3
MaxTexts == 3
MaxCached == 1
MaxAttemptsBound == 4
MaxBatchSize == 2
MaxReqTexts == 6
JitterSteps == 2
MaxNestedAttempts == 2
MaxGoogleTexts == 2
MaxFailures == 4
MaxPermits == 2
MaxMemOps == 4
MemThreads == 2
MaxThreadCalls == 2
SessionMaxsize == 1

(***************************************************************************)
(* Program constants.                                                      *)
(***************************************************************************)
SimilarityThresholdPermille == 985
WEB_BATCH_SIZE == 5
WEB_MAX_RETRIES == 3
GOOGLE_ENDPOINTS == 4
LINGVA_INSTANCES == 3
FAILURE_SLACK == 2
RACE_SIZE == 2
SEPARATOR_RACE_SIZE == 3
SEPARATOR_MAX_TEXTS == 8
SEPARATOR_MAX_CHARS == 1200

Alphabet == {"a", "b", " "}
Whitespace == {" "}

RECURSIVE StringsUpTo(_)
StringsUpTo(n) ==
  IF n = 0 THEN {<< >>}
  ELSE LET shorter == StringsUpTo(n - 1)
       IN  shorter \cup {Append(s, c) : s \in {t \in shorter : Len(t) = n - 1}, c \in Alphabet}

RECURSIVE ListsUpTo(_, _)
ListsUpTo(S, n) ==
  IF n = 0 THEN {<< >>}
  ELSE LET shorter == ListsUpTo(S, n - 1)
       IN  shorter \cup {Append(l, x) : l \in {t \in shorter : Len(t) = n - 1}, x \in S}

SeqToSet(s) == {s[i] : i \in 1..Len(s)}

RECURSIVE SumLens(_)
SumLens(items) == IF items = << >> THEN 0 ELSE Len(Head(items)) + SumLens(Tail(items))

(***************************************************************************)
(* str.strip(): drop leading and trailing whitespace.                      *)
(***************************************************************************)
RECURSIVE LStrip(_)
LStrip(s) == IF s # << >> /\ Head(s) \in Whitespace THEN LStrip(Tail(s)) ELSE s

RECURSIVE RStrip(_)
RStrip(s) ==
  IF s # << >> /\ s[Len(s)] \in Whitespace THEN RStrip(SubSeq(s, 1, Len(s) - 1)) ELSE s

Strip(s) == RStrip(LStrip(s))

(***************************************************************************)
(* difflib.SequenceMatcher(None, a, b).ratio() as _sequence_ratio uses it. *)
(* No junk heuristic applies (autojunk needs len(b) >= 200).               *)
(* RunLen: length of the common run starting at a[i], b[j].                *)
(* FindLongestMatch: the longest common block of a[alo..ahi], b[blo..bhi], *)
(* the one starting earliest in a, and of those earliest in b.             *)
(* MatchCount: total size of the matching blocks, found by recursing to    *)
(* the left and to the right of the longest block.                         *)
(***************************************************************************)
RECURSIVE RunLen(_, _, _, _, _, _)
RunLen(a, b, i, j, ahi, bhi) ==
  IF i <= ahi /\ j <= bhi /\ a[i] = b[j] THEN 1 + RunLen(a, b, i + 1, j + 1, ahi, bhi) ELSE 0

FindLongestMatch(a, b, alo, ahi, blo, bhi) ==
  LET starts == (alo..ahi) \X (blo..bhi)
      k(p) == RunLen(a, b, p[1], p[2], ahi, bhi)
      best == CHOOSE p \in starts :
                \A q \in starts :
                  \/ k(p) > k(q)
                  \/ k(p) = k(q) /\ p[1] < q[1]
                  \/ k(p) = k(q) /\ p[1] = q[1] /\ p[2] <= q[2]
  IN  [i |-> best[1], j |-> best[2], k |-> k(best)]

RECURSIVE MatchCount(_, _, _, _, _, _)
MatchCount(a, b, alo, ahi, blo, bhi) ==
  IF alo > ahi \/ blo > bhi THEN 0
  ELSE LET m == FindLongestMatch(a, b, alo, ahi, blo, bhi)
       IN  IF m.k = 0 THEN 0
           ELSE m.k + MatchCount(a, b, alo, m.i - 1, blo, m.j - 1)
                    + MatchCount(a, b, m.i + m.k, ahi, m.j + m.k, bhi)

\* _sequence_ratio(a, b) >= permille / 1000, in integers: ratio = 2*M / T.
SequenceRatioAtLeast(a, b, permille) ==
  IF a = << >> /\ b = << >> THEN 1000 >= permille
  ELSE 2 * MatchCount(a, b, 1, Len(a), 1, Len(b)) * 1000 >= permille * (Len(a) + Len(b))

(***************************************************************************)
(* _find_match: position of the first pool element equal to the candidate  *)
(* or similar enough to it; 0 stands for None.                             *)
(***************************************************************************)
FindMatch(candidate, pool, permille) ==
  LET hits == {i \in 1..Len(pool) :
                 candidate = pool[i] \/ SequenceRatioAtLeast(candidate, pool[i], permille)}
  IN  IF hits = {} THEN 0 ELSE CHOOSE i \in hits : \A h \in hits : i <= h

(***************************************************************************)
(* deduplicate_texts: the loop over enumerate(texts), from index idx on.   *)
(***************************************************************************)
\* A deduplicate_texts that forgets to record the index of a matched text.
RECURSIVE DedupLoopDropsMatched(_, _, _, _)
DedupLoopDropsMatched(texts, idx, unique, groups) ==
  IF idx > Len(texts) THEN [unique_texts |-> unique, groups |-> groups]
  ELSE LET text == texts[idx]
           normalized == Strip(text)
           match_index == FindMatch(normalized, unique, SimilarityThresholdPermille)
       IN  IF match_index = 0
           THEN DedupLoopDropsMatched(texts, idx + 1, Append(unique, text), Append(groups, <<idx>>))
           ELSE DedupLoopDropsMatched(texts, idx + 1, unique, groups)

RECURSIVE DedupLoop(_, _, _, _)
DedupLoop(texts, idx, unique, groups) ==
  IF idx > Len(texts) THEN [unique_texts |-> unique, groups |-> groups]
  ELSE LET text == texts[idx]
           normalized == Strip(text)
           match_index == FindMatch(normalized, unique, SimilarityThresholdPermille)
       IN  IF match_index = 0
           THEN DedupLoop(texts, idx + 1, Append(unique, text), Append(groups, <<idx>>))
           ELSE DedupLoop(texts, idx + 1, unique,
                          [groups EXCEPT ![match_index] = Append(@, idx)])

DeduplicateTexts(texts) == DedupLoop(texts, 1, << >>, << >>)

(***************************************************************************)
(* make_cache_key: f"{source}::{target}::{text}".                          *)
(***************************************************************************)
KeySeparator == <<":", ":">>

MakeCacheKey(text, source, target) == source \o KeySeparator \o target \o KeySeparator \o text

(***************************************************************************)
(* chunk_by_char_limit: the loop over items, from position k on.           *)
(***************************************************************************)
\* A planner whose item-count test is off by one (> instead of >=).
RECURSIVE ChunkLoopOffByOne(_, _, _, _, _, _, _)
ChunkLoopOffByOne(items, k, batches, current, char_count, max_chars, max_items) ==
  IF k > Len(items)
  THEN IF current # << >> THEN Append(batches, current) ELSE batches
  ELSE LET item == items[k]
           item_len == Len(item)
       IN  IF current # << >> /\ (char_count + item_len > max_chars \/ Len(current) > max_items)
           THEN ChunkLoopOffByOne(items, k + 1, Append(batches, current), <<item>>, item_len,
                                  max_chars, max_items)
           ELSE ChunkLoopOffByOne(items, k + 1, batches, Append(current, item),
                                  char_count + item_len, max_chars, max_items)

\* A planner that closes a batch the next item would fill exactly.
RECURSIVE ChunkLoopClosesWhenFull(_, _, _, _, _, _, _)
ChunkLoopClosesWhenFull(items, k, batches, current, char_count, max_chars, max_items) ==
  IF k > Len(items)
  THEN IF current # << >> THEN Append(batches, current) ELSE batches
  ELSE LET item == items[k]
           item_len == Len(item)
       IN  IF current # << >> /\ (char_count + item_len >= max_chars \/ Len(current) >= max_items)
           THEN ChunkLoopClosesWhenFull(items, k + 1, Append(batches, current), <<item>>,
                                        item_len, max_chars, max_items)
           ELSE ChunkLoopClosesWhenFull(items, k + 1, batches, Append(current, item),
                                        char_count + item_len, max_chars, max_items)

RECURSIVE ChunkLoop(_, _, _, _, _, _, _)
ChunkLoop(items, k, batches, current, char_count, max_chars, max_items) ==
  IF k > Len(items)
  THEN IF current # << >> THEN Append(batches, current) ELSE batches
  ELSE LET item == items[k]
           item_len == Len(item)
       IN  IF current # << >> /\ (char_count + item_len > max_chars \/ Len(current) >= max_items)
           THEN ChunkLoop(items, k + 1, Append(batches, current), <<item>>, item_len,
                          max_chars, max_items)
           ELSE ChunkLoop(items, k + 1, batches, Append(current, item),
                          char_count + item_len, max_chars, max_items)

ChunkByCharLimit(items, max_chars, max_items) ==
  ChunkLoop(items, 1, << >>, << >>, 0, max_chars, max_items)

(***************************************************************************)
(* PendingEntry and TranslationOrchestrator._build_batches: the loop over  *)
(* entries, from position k on.                                            *)
(***************************************************************************)
PendingEntry(text, indexes, cache_key) ==
  [text |-> text, indexes |-> indexes, cache_key |-> cache_key]

\* A _build_batches that forgets the batch still open when the loop ends.
RECURSIVE BuildBatchesLoopDropsLast(_, _, _, _, _, _, _)
BuildBatchesLoopDropsLast(entries, k, batches, current, char_count, batch_char_limit, batch_size) ==
  IF k > Len(entries)
  THEN batches
  ELSE LET entry == entries[k]
           entry_len == Len(entry.text)
       IN  IF current # << >>
              /\ (char_count + entry_len > batch_char_limit \/ Len(current) >= batch_size)
           THEN BuildBatchesLoopDropsLast(entries, k + 1, Append(batches, current), <<entry>>,
                                          entry_len, batch_char_limit, batch_size)
           ELSE BuildBatchesLoopDropsLast(entries, k + 1, batches, Append(current, entry),
                                          char_count + entry_len, batch_char_limit, batch_size)

RECURSIVE BuildBatchesLoop(_, _, _, _, _, _, _)
BuildBatchesLoop(entries, k, batches, current, char_count, batch_char_limit, batch_size) ==
  IF k > Len(entries)
  THEN IF current # << >> THEN Append(batches, current) ELSE batches
  ELSE LET entry == entries[k]
           entry_len == Len(entry.text)
       IN  IF current # << >>
              /\ (char_count + entry_len > batch_char_limit \/ Len(current) >= batch_size)
           THEN BuildBatchesLoop(entries, k + 1, Append(batches, current), <<entry>>, entry_len,
                                 batch_char_limit, batch_size)
           ELSE BuildBatchesLoop(entries, k + 1, batches, Append(current, entry),
                                 char_count + entry_len, batch_char_limit, batch_size)

EntryTexts(batch) == [i \in 1..Len(batch) |-> batch[i].text]

BuildBatches(entries, batch_char_limit, batch_size) ==
  BuildBatchesLoop(entries, 1, << >>, << >>, 0, batch_char_limit, batch_size)

(***************************************************************************)
(* Optional values (str | None) and Python truthiness of them: None and "" *)
(* are falsy.                                                              *)
(***************************************************************************)
None == [has |-> FALSE, val |-> << >>]
Some(v) == [has |-> TRUE, val |-> v]
Truthy(x) == x.has /\ x.val # << >>

(***************************************************************************)
(* dict.get and dict item assignment on a dict held as a function.         *)
(***************************************************************************)
DictGet(d, key) == IF key \in DOMAIN d THEN Some(d[key]) ELSE None
DictSet(d, key, value) == [x \in (DOMAIN d) \cup {key} |-> IF x = key THEN value ELSE d[x]]
EmptyDict == [x \in {} |-> << >>]

(***************************************************************************)
(* SessionCache.get: the lru_cache memo in front of _fetch (_store.get).   *)
(* The memo bound (maxsize 2048) is far above the keys of one model run,   *)
(* so no eviction takes place.                                             *)
(***************************************************************************)
SessionCacheGet(store, memo, key) ==
  IF key \in DOMAIN memo THEN memo[key] ELSE DictGet(store, key)

SessionCacheMemoAfterGet(store, memo, key) ==
  IF key \in DOMAIN memo THEN memo ELSE DictSet(memo, key, DictGet(store, key))

\* TranslationMemory.get
TranslationMemoryGet(data, key) == DictGet(data, key)

(***************************************************************************)
(* translate, lines 57-65: the cache-resolution loop over                  *)
(* zip(dedup.unique_texts, dedup.groups), from position k on.  st carries  *)
(* resolved, pending, the session cache's memo and the get calls made on   *)
(* the two tiers, in order.                                                *)
(***************************************************************************)
\* A scatter that writes the first index of a group only.
ScatterValueFirstOnly(resolved, indexes, value) ==
  [i \in 1..Len(resolved) |-> IF i = indexes[1] THEN Some(value) ELSE resolved[i]]

ScatterValue(resolved, indexes, value) ==
  [i \in 1..Len(resolved) |-> IF i \in SeqToSet(indexes) THEN Some(value) ELSE resolved[i]]

\* translate, line 60: session_cache.get(key) or memory.get(key)
CachedValue(fromSession, fromMemory) ==
  IF Truthy(fromSession) THEN fromSession ELSE fromMemory

\* translate, line 61: if cached
CacheHit(cached) == Truthy(cached)

\* translate, line 60: `or` evaluates memory.get(key) only when the value
\* session_cache.get(key) returned is falsy.
MemoryConsulted(fromSession) == ~Truthy(fromSession)

Lookup(tier, key) == [tier |-> tier, key |-> key]

LookupsOf(fromSession, key) ==
  IF MemoryConsulted(fromSession)
  THEN <<Lookup("session", key), Lookup("memory", key)>>
  ELSE <<Lookup("session", key)>>

RECURSIVE ResolveLoop(_, _, _, _, _, _)
ResolveLoop(dd, k, st, store, data, langs) ==
  IF k > Len(dd.unique_texts) THEN st
  ELSE LET unique_text == dd.unique_texts[k]
           indexes == dd.groups[k]
           key == MakeCacheKey(unique_text, langs[1], langs[2])
           fromSession == SessionCacheGet(store, st.memo, key)
           memo2 == SessionCacheMemoAfterGet(store, st.memo, key)
           cached == CachedValue(fromSession, TranslationMemoryGet(data, key))
       IN  IF CacheHit(cached)
           THEN ResolveLoop(dd, k + 1,
                            [st EXCEPT !.resolved = ScatterValue(@, indexes, cached.val),
                                       !.memo = memo2,
                                       !.lookups = @ \o LookupsOf(fromSession, key)],
                            store, data, langs)
           ELSE ResolveLoop(dd, k + 1,
                            [st EXCEPT !.pending = Append(@, PendingEntry(unique_text, indexes, key)),
                                       !.memo = memo2,
                                       !.lookups = @ \o LookupsOf(fromSession, key)],
                            store, data, langs)

CompletedCount(resolved) == Cardinality({i \in 1..Len(resolved) : resolved[i].has})

(***************************************************************************)
(* _translate_pending, lines 111-118: the loop over zip(batch,             *)
(* translations), from position k on.  st carries the session store and    *)
(* memo, the memory's data, dirty flag and file, resolved, completed and   *)
(* the progress reports, and writes, one record per entry written.         *)
(***************************************************************************)
\* A loop that reports an entry once, whatever the number of its indexes.
ReportEachPerEntry(progress, completed, n) ==
  IF n = 0 THEN progress ELSE Append(progress, completed + 1)

RECURSIVE ReportEach(_, _, _)
ReportEach(progress, completed, n) ==
  IF n = 0 THEN progress ELSE ReportEach(Append(progress, completed + 1), completed + 1, n - 1)

\* A scatter that writes the entry's source text instead of its translation.
ScatterEntryWritesSource(resolved, entry, translated) ==
  ScatterValue(resolved, entry.indexes, entry.text)

ScatterEntry(resolved, entry, translated) ==
  ScatterValue(resolved, entry.indexes, translated)

\* A SessionCache.set that clears the memo and stores nothing.
SessionCacheSetStoresNothing(sess, key, value) ==
  [store |-> sess.store, memo |-> EmptyDict]

\* SessionCache.set: write the store, clear the lru_cache memo.
SessionCacheSet(sess, key, value) ==
  [store |-> DictSet(sess.store, key, value), memo |-> EmptyDict]

\* TranslationMemory.flush: write all of _data to the file if dirty.
TranslationMemoryFlush(mem) ==
  IF ~mem.dirty THEN mem ELSE [mem EXCEPT !.file = mem.data, !.dirty = FALSE]

\* TranslationMemory.set, lines 38-40: the part under the lock
TranslationMemoryAssign(mem, key, value) ==
  [mem EXCEPT !.data = DictSet(@, key, value), !.dirty = TRUE]

\* A TranslationMemory.set that only marks the data dirty (write-back).
TranslationMemorySetNoFlush(mem, key, value, auto_flush) ==
  [mem EXCEPT !.data = DictSet(@, key, value), !.dirty = TRUE]

\* TranslationMemory.set
TranslationMemorySet(mem, key, value, auto_flush) ==
  LET written == TranslationMemoryAssign(mem, key, value)
  IN  IF auto_flush THEN TranslationMemoryFlush(written) ELSE written

\* What the tiers and the file hold for an entry's key at the moment its
\* translation is written to resolved (line 115).
WriteRecord(entry, translated, sess, mem) ==
  [index |-> entry.indexes[1], key |-> entry.cache_key, value |-> translated,
   session |-> DictGet(sess.store, entry.cache_key),
   memory |-> DictGet(mem.data, entry.cache_key),
   file |-> DictGet(mem.file, entry.cache_key)]

RECURSIVE ScatterLoop(_, _, _, _, _)
ScatterLoop(batch, translated, k, st, auto_flush) ==
  IF k > Len(batch) \/ k > Len(translated) THEN st
  ELSE LET entry == batch[k]
           sess2 == SessionCacheSet([store |-> st.store, memo |-> st.memo],
                                    entry.cache_key, translated[k])
           mem2 == TranslationMemorySet([data |-> st.data, dirty |-> st.dirty, file |-> st.file],
                                        entry.cache_key, translated[k], auto_flush)
       IN  ScatterLoop(batch, translated, k + 1,
             [st EXCEPT !.store = sess2.store,
                        !.memo = sess2.memo,
                        !.data = mem2.data,
                        !.dirty = mem2.dirty,
                        !.file = mem2.file,
                        !.resolved = ScatterEntry(@, entry, translated[k]),
                        !.writes = Append(@, WriteRecord(entry, translated[k], sess2, mem2)),
                        !.completed = @ + Len(entry.indexes),
                        !.progress = ReportEach(@, st.completed, Len(entry.indexes))],
             auto_flush)

(***************************************************************************)
(* _retry, lines 143-147: what a failed attempt leads to.                  *)
(***************************************************************************)
\* A retry loop that allows one attempt too many (> instead of >=).
RetryExhaustedOneLate(attemptNo, max_attempts) == attemptNo > max_attempts

\* A retry loop that gives up one attempt early.
RetryExhaustedOneEarly(attemptNo, max_attempts) == attemptNo + 1 >= max_attempts

RetryExhausted(attemptNo, max_attempts) == attemptNo >= max_attempts

\* A retry loop that wraps the last failure in an error of its own.
RaisedAfterRetriesWrapped(exc) == [kind |-> "retries_exhausted", attempt |-> exc.attempt]

\* _retry, line 147: a bare raise re-raises the exception being handled.
RaisedAfterRetries(exc) == exc

\* A size check that lets a reply with surplus entries through.
BatchSizeMismatchShortOnly(translated, batch) == Len(translated) < Len(batch)

\* _translate_pending, line 109
BatchSizeMismatch(translated, batch) == Len(translated) # Len(batch)

\* translate, lines 81-84
Missing(resolved) == {i \in 1..Len(resolved) : ~resolved[i].has}

\* A return that skips the unresolved slots instead of failing on them.
FinalOutputSkipsMissing(resolved) ==
  LET kept == {i \in 1..Len(resolved) : Truthy(resolved[i])}
      RECURSIVE Pick(_)
      Pick(i) == IF i > Len(resolved) THEN << >>
                 ELSE IF i \in kept THEN <<resolved[i].val>> \o Pick(i + 1) ELSE Pick(i + 1)
  IN  Pick(1)

FinalOutput(resolved) ==
  [i \in 1..Len(resolved) |-> IF Truthy(resolved[i]) THEN resolved[i].val ELSE << >>]

(***************************************************************************)
(* State.                                                                  *)
(*   d*: one call of deduplicate_texts.                                    *)
(*   p*: one call of each batch planner.                                   *)
(*   the rest: one TranslationOrchestrator.translate call, its two cache   *)
(*   tiers and its backend.                                                *)
(***************************************************************************)
VARIABLES dTexts, dResult, dDone,
          pItems, pMaxChars, pMaxItems, pChunks, pBatches, pChunked, pBuilt,
          pc,             \* where the translate coroutine stands
          texts,          \* the texts argument
          maxAttempts,    \* retry_policy.max_attempts
          batchCharLimit, \* self.batch_char_limit
          batchSize,      \* self.batch_size
          sessStore,      \* SessionCache._store
          sessMemo,       \* the lru_cache memo of SessionCache._fetch_cached
          memData,        \* TranslationMemory._data
          memDirty,       \* TranslationMemory._dirty
          memFile,        \* content of the durable store file
          sessAtCall,     \* SessionCache._store when translate was called
          memAtCall,      \* TranslationMemory._data when translate was called
          dedup,          \* DeduplicationResult
          pending,        \* List[PendingEntry]
          resolved,       \* List[str | None]
          batches,        \* result of _build_batches
          batchNo,        \* position of the current batch in batches
          attempt,        \* _retry's attempt counter
          invocations,    \* translate_texts invocations made by the current _retry
          failCount,      \* exceptions caught by the current _retry
          lastError,      \* the exception of the latest failed attempt
          translations,   \* what _retry returned for the current batch
          sent,           \* every text passed to translate_texts so far
          received,       \* first index of a group -> the translation accepted for it
          completed,      \* _translate_pending's completed counter
          progress,       \* the completed values passed to progress_cb
          raised,         \* the exception translate raised, if any
          output,         \* the list translate returned, if any
          lookups,        \* the get calls translate made on the two tiers, in order
          writes,         \* per entry written to resolved: what the tiers then held
          bkVariant,      \* which translate_texts runs: "deepl_api" or "deepl_web"
          bkTexts,        \* request.texts
          bkPc,           \* where translate_texts stands
          bkOffset,       \* deepl_web: i, the 0-based offset of the current sub-batch
          bkAttempt,      \* deepl_web: attempt, 0-based, of the current sub-batch
          bkResults,      \* translations collected so far / the returned list
          bkReplies,      \* for every provider reply: texts sent, translations got
          bkSent,         \* every request sent to the provider: the _retry attempt it
                          \* was sent in, its sub-batch offset, how it ended
          bkRaised,       \* the error translate_texts raised, if any
          gN,             \* len(google_endpoints); the endpoints are 1..gN
          gMode,          \* how each endpoint answers: "any", "fails" or "succeeds"
          gLimit,         \* concurrency_limit
          gFailures,      \* _endpoint_failures, an absent endpoint counting 0
          gIndex,         \* _endpoint_index
          gLingvaIndex,   \* _lingva_index
          gPhase,         \* where translate_texts stands
          gLens,          \* len(t) for each t of request.texts
          gSep,           \* the race of _try_batch_separator
          gTask,          \* per text: its translate_one / _translate_single, while
                          \* translate_texts runs
          gSem,           \* the value of _translate_parallel's semaphore
          gPicks,         \* the _get_next_endpoint calls of the latest step
          gTriedSep,      \* whether this translate_texts call ran _try_batch_separator
          gReturned,      \* what translate_texts returned, if it has
          gRaised,        \* the exception translate_texts raised, if any
          tmPhase,        \* a TranslationMemory of its own: "off", "unbuilt", "ready",
                          \* "autoflush" (inside set, before its flush), "failed"
          tmFile,         \* the content of its file
          tmBuiltFrom,    \* the kind of content the file had at construction
          tmData,         \* its _data
          tmDirty,        \* its _dirty
          tmAutoFlush,    \* its auto_flush
          tmRaised,       \* the exception its construction raised, if any
          tmLog,          \* its get, set and flush calls so far, in order
          tmLock,         \* the thread holding its _lock, 0 when free
          tmThread,       \* per thread: where its call on the memory stands
          tmIntended,     \* key -> the value of the latest assignment to _data[key]
          scStore,        \* a SessionCache of its own: its _store
          scMemo,         \* the memo of its lru_cache
          scThread,       \* per thread: where its call on the session cache stands
          scLog,          \* the get calls that have returned
          rtPc,           \* where TranslationOrchestrator._retry stands
          rtPolicy,       \* retry_policy
          rtLogCb,        \* whether log_cb is given
          rtAttempt,      \* _retry's attempt
          rtDelay,        \* _retry's delay, a fraction num/den
          rtEvents        \* what _retry did so far: attempts, log_cb calls, sleeps

dedupVars == <<dTexts, dResult, dDone>>
planVars == <<pItems, pMaxChars, pMaxItems, pChunks, pBatches, pChunked, pBuilt>>
configVars == <<texts, maxAttempts, batchCharLimit, batchSize, sessAtCall, memAtCall>>
cacheVars == <<sessStore, sessMemo, memData, memDirty, memFile>>
retryVars == <<attempt, invocations, failCount, lastError>>
callVars == <<pc, dedup, pending, resolved, batches, batchNo, retryVars,
              translations, sent, received, completed, progress, raised, output, lookups,
              writes>>
orchVars == <<configVars, cacheVars, callVars>>
backendVars == <<bkVariant, bkTexts, bkPc, bkOffset, bkAttempt, bkResults, bkReplies, bkSent,
                 bkRaised>>
googleConfigVars == <<gN, gMode, gLimit>>
endpointVars == <<gFailures, gIndex>>
googleCallVars == <<gPhase, gLens, gSep, gTask, gSem, gPicks, gTriedSep, gReturned, gRaised>>
googleVars == <<googleConfigVars, endpointVars, gLingvaIndex, googleCallVars>>
memoryVars == <<tmPhase, tmFile, tmBuiltFrom, tmData, tmDirty, tmAutoFlush, tmRaised, tmLog>>
memoryThreadVars == <<tmLock, tmThread, tmIntended>>
sessionVars == <<scStore, scMemo, scThread, scLog>>
retryExecVars == <<rtPc, rtPolicy, rtLogCb, rtAttempt, rtDelay, rtEvents>>
storeVars == <<memoryVars, memoryThreadVars, sessionVars, retryExecVars>>
vars == <<dedupVars, planVars, orchVars, backendVars, googleVars, storeVars>>

SourceLang == <<"e", "n">>
TargetLang == <<"t", "r">>

(***************************************************************************)
(* deduplicate_texts applied to every bounded input list.                  *)
(***************************************************************************)
DedupTextPool == StringsUpTo(MaxTextLen)

DedupInit ==
  /\ dTexts \in ListsUpTo(DedupTextPool, MaxDedupTexts)
  /\ dResult = [unique_texts |-> << >>, groups |-> << >>]
  /\ dDone = FALSE

DedupIdle ==
  /\ dTexts = << >>
  /\ dResult = [unique_texts |-> << >>, groups |-> << >>]
  /\ dDone = FALSE

Deduplicate ==
  /\ ~dDone
  /\ dResult' = DeduplicateTexts(dTexts)
  /\ dDone' = TRUE
  /\ UNCHANGED <<dTexts, planVars, orchVars, backendVars, googleVars, storeVars>>

(***************************************************************************)
(* The batch planner applied to every bounded item list and limits:        *)
(* chunk_by_char_limit on the strings, _build_batches on pending entries   *)
(* holding the same strings.                                               *)
(***************************************************************************)
PlanItemPool == {[i \in 1..n |-> "a"] : n \in 0..MaxItemLen}

PlanEntries == [i \in 1..Len(pItems) |->
                  PendingEntry(pItems[i], <<i>>, MakeCacheKey(pItems[i], SourceLang, TargetLang))]

PlanInit ==
  /\ pItems \in ListsUpTo(PlanItemPool, MaxPlanItems)
  /\ pMaxChars \in 1..MaxPlanChars
  /\ pMaxItems \in 1..MaxPlanBatchSize
  /\ pChunks = << >>
  /\ pBatches = << >>
  /\ pChunked = FALSE
  /\ pBuilt = FALSE

PlanIdle ==
  /\ pItems = << >>
  /\ pMaxChars = 1
  /\ pMaxItems = 1
  /\ pChunks = << >>
  /\ pBatches = << >>
  /\ pChunked = FALSE
  /\ pBuilt = FALSE

PlanChunks ==
  /\ ~pChunked
  /\ pChunks' = ChunkByCharLimit(pItems, pMaxChars, pMaxItems)
  /\ pChunked' = TRUE
  /\ UNCHANGED <<pItems, pMaxChars, pMaxItems, pBatches, pBuilt, dedupVars, orchVars,
                 backendVars, googleVars, storeVars>>

PlanBatches ==
  /\ ~pBuilt
  /\ pBatches' = BuildBatches(PlanEntries, pMaxChars, pMaxItems)
  /\ pBuilt' = TRUE
  /\ UNCHANGED <<pItems, pMaxChars, pMaxItems, pChunks, pChunked, dedupVars, orchVars,
                 backendVars, googleVars, storeVars>>

(***************************************************************************)
(* One TranslationOrchestrator.translate call.  The backend is any         *)
(* BaseTranslator: each translate_texts invocation either raises an        *)
(* Exception or returns a list of strings of any length.                   *)
(***************************************************************************)
OrchTextPool == {<<"a">>, <<" ", "a">>, <<"b">>}
SessionValues == {<< >>, <<"S">>}
MemoryValues == {<< >>, <<"M">>}
TranslationValues == {<< >>, <<"T">>}
ErrorKinds == {"transient", "permanent"}
NoError == [kind |-> "none", attempt |-> 0]
MAX_ATTEMPTS_DEFAULT == 4
BATCH_CHAR_LIMIT_DEFAULT == 6000
AUTO_FLUSH_DEFAULT == TRUE

Langs == <<SourceLang, TargetLang>>
\* The cache keys one call can read or write: those of its own texts.
KeysOf(ts) == {MakeCacheKey(ts[i], SourceLang, TargetLang) : i \in 1..Len(ts)}

DictsOver(keys, values, n) ==
  UNION {[ks -> values] : ks \in {x \in SUBSET keys : Cardinality(x) <= n}}

OrchIdle ==
  /\ pc = "off"
  /\ texts = << >>
  /\ maxAttempts = MAX_ATTEMPTS_DEFAULT
  /\ batchCharLimit = BATCH_CHAR_LIMIT_DEFAULT
  /\ batchSize = 1
  /\ sessStore = EmptyDict /\ sessMemo = EmptyDict
  /\ memData = EmptyDict /\ memDirty = FALSE /\ memFile = EmptyDict
  /\ sessAtCall = EmptyDict /\ memAtCall = EmptyDict
  /\ dedup = [unique_texts |-> << >>, groups |-> << >>]
  /\ pending = << >> /\ resolved = << >> /\ batches = << >>
  /\ batchNo = 0 /\ attempt = 0 /\ invocations = 0 /\ failCount = 0
  /\ lastError = NoError /\ translations = << >>
  /\ sent = {} /\ received = EmptyDict /\ completed = 0 /\ progress = << >>
  /\ raised = NoError /\ output = << >>
  /\ lookups = << >>
  /\ writes = << >>

OrchInit ==
  /\ pc = "called"
  /\ texts \in ListsUpTo(OrchTextPool, MaxTexts)
  /\ maxAttempts \in 1..MaxAttemptsBound
  /\ batchCharLimit = BATCH_CHAR_LIMIT_DEFAULT
  /\ batchSize \in 1..MaxBatchSize
  /\ sessStore \in DictsOver(KeysOf(texts), SessionValues, MaxCached)
  /\ sessMemo = EmptyDict
  /\ memData \in DictsOver(KeysOf(texts), MemoryValues, MaxCached)
  /\ memDirty = FALSE
  /\ memFile = memData
  /\ sessAtCall = sessStore
  /\ memAtCall = memData
  /\ dedup = [unique_texts |-> << >>, groups |-> << >>]
  /\ pending = << >> /\ resolved = << >> /\ batches = << >>
  /\ batchNo = 0 /\ attempt = 0 /\ invocations = 0 /\ failCount = 0
  /\ lastError = NoError /\ translations = << >>
  /\ sent = {} /\ received = EmptyDict /\ completed = 0 /\ progress = << >>
  /\ raised = NoError /\ output = << >>
  /\ lookups = << >>
  /\ writes = << >>

\* translate, lines 53-55
Deduplicating ==
  /\ pc = "called"
  /\ resolved' = [i \in 1..Len(texts) |-> None]
  /\ dedup' = DeduplicateTexts(texts)
  /\ pc' = "resolving"
  /\ UNCHANGED <<configVars, writes, lookups, cacheVars, pending, batches, batchNo, retryVars,
                 translations, sent, received, completed, progress, raised, output,
                 dedupVars, planVars, backendVars, googleVars, storeVars>>

\* translate, lines 57-69
CacheResolving ==
  /\ pc = "resolving"
  /\ LET st == ResolveLoop(dedup, 1,
                           [resolved |-> resolved, pending |-> << >>, memo |-> sessMemo,
                            lookups |-> << >>],
                           sessStore, memData, Langs)
     IN  /\ resolved' = st.resolved
         /\ lookups' = st.lookups
         /\ pending' = st.pending
         /\ sessMemo' = st.memo
         /\ progress' = Append(progress, CompletedCount(st.resolved))
  /\ pc' = "dispatching"
  /\ UNCHANGED <<configVars, writes, sessStore, memData, memDirty, memFile, dedup, batches, batchNo,
                 retryVars, translations, sent, received, completed, raised, output,
                 dedupVars, planVars, backendVars, googleVars, storeVars>>

\* translate, line 71, with nothing pending
NothingPending ==
  /\ pc = "dispatching"
  /\ pending = << >>
  /\ pc' = "verifying"
  /\ UNCHANGED <<configVars, writes, lookups, cacheVars, dedup, pending, resolved, batches, batchNo,
                 retryVars, translations, sent, received, completed, progress, raised, output,
                 dedupVars, planVars, backendVars, googleVars, storeVars>>

\* translate, lines 71-79, and _translate_pending, lines 96-102 and 136-138,
\* up to the first backend call
Batching ==
  /\ pc = "dispatching"
  /\ pending # << >>
  /\ batches' = BuildBatches(pending, batchCharLimit, batchSize)
  /\ completed' = CompletedCount(resolved)
  /\ batchNo' = 1
  /\ attempt' = 0 /\ invocations' = 0 /\ failCount' = 0 /\ lastError' = NoError
  /\ pc' = "translating"
  /\ UNCHANGED <<configVars, writes, lookups, cacheVars, dedup, pending, resolved, translations, sent,
                 received, progress, raised, output, dedupVars, planVars, backendVars, googleVars, storeVars>>

BatchTexts == EntryTexts(batches[batchNo])

\* _retry, lines 140-150: an attempt whose translate_texts raises an Exception
AttemptFails ==
  /\ pc = "translating"
  /\ attempt' = attempt + 1
  /\ invocations' = invocations + 1
  /\ sent' = sent \cup SeqToSet(BatchTexts)
  /\ failCount' = failCount + 1
  /\ \E kind \in ErrorKinds : lastError' = [kind |-> kind, attempt |-> attempt + 1]
  /\ IF RetryExhausted(attempt + 1, maxAttempts)
     THEN /\ raised' = RaisedAfterRetries(lastError')
          /\ pc' = "failed"
     ELSE /\ raised' = raised
          /\ pc' = "sleeping"
  /\ UNCHANGED <<configVars, writes, lookups, cacheVars, dedup, pending, resolved, batches, batchNo,
                 translations, received, completed, progress, output, dedupVars, planVars, backendVars, googleVars, storeVars>>

\* _retry, lines 148-150 and 139-140: the backoff sleep ends, the loop starts over
Retrying ==
  /\ pc = "sleeping"
  /\ pc' = "translating"
  /\ UNCHANGED <<configVars, writes, lookups, cacheVars, dedup, pending, resolved, batches, batchNo,
                 retryVars, translations, sent, received, completed, progress, raised, output,
                 dedupVars, planVars, backendVars, googleVars, storeVars>>

\* What a backend may return for n texts: any n strings, or a list that is
\* one entry short or one entry long.
Replies(n) ==
  [1..n -> TranslationValues]
    \cup {[i \in 1..k |-> <<"T">>] : k \in {n - 1, n + 1} \cap Nat}

\* _retry, lines 140-142, and _translate_pending, line 108: an attempt whose
\* translate_texts returns
AttemptReturns ==
  /\ pc = "translating"
  /\ attempt' = attempt + 1
  /\ invocations' = invocations + 1
  /\ sent' = sent \cup SeqToSet(BatchTexts)
  /\ \E reply \in Replies(Len(batches[batchNo])) : translations' = reply
  /\ pc' = "checking"
  /\ UNCHANGED <<configVars, writes, lookups, cacheVars, dedup, pending, resolved, batches, batchNo,
                 failCount, lastError, received, completed, progress, raised, output,
                 dedupVars, planVars, backendVars, googleVars, storeVars>>

\* _translate_pending, lines 109-110
MismatchRaised ==
  /\ pc = "checking"
  /\ BatchSizeMismatch(translations, batches[batchNo])
  /\ raised' = [kind |-> "mismatch", attempt |-> 0]
  /\ pc' = "failed"
  /\ UNCHANGED <<configVars, writes, lookups, cacheVars, dedup, pending, resolved, batches, batchNo,
                 retryVars, translations, sent, received, completed, progress, output,
                 dedupVars, planVars, backendVars, googleVars, storeVars>>

\* _translate_pending, lines 111-118, and the step to the next batch
\* (lines 101-102, 136-138)
CacheWritingScattering ==
  /\ pc = "checking"
  /\ ~BatchSizeMismatch(translations, batches[batchNo])
  /\ LET st == ScatterLoop(batches[batchNo], translations, 1,
                           [store |-> sessStore, memo |-> sessMemo, data |-> memData,
                            dirty |-> memDirty, file |-> memFile, resolved |-> resolved,
                            completed |-> completed, progress |-> progress,
                            writes |-> writes],
                           AUTO_FLUSH_DEFAULT)
     IN  /\ sessStore' = st.store
         /\ sessMemo' = st.memo
         /\ memData' = st.data
         /\ memDirty' = st.dirty
         /\ memFile' = st.file
         /\ resolved' = st.resolved
         /\ completed' = st.completed
         /\ progress' = st.progress
         /\ writes' = st.writes
  /\ received' = [i \in (DOMAIN received) \cup {batches[batchNo][k].indexes[1] :
                                                  k \in 1..Len(batches[batchNo])} |->
                    IF i \in DOMAIN received THEN received[i]
                    ELSE LET k == CHOOSE k \in 1..Len(batches[batchNo]) :
                                    batches[batchNo][k].indexes[1] = i
                         IN  translations[k]]
  /\ IF batchNo < Len(batches)
     THEN /\ batchNo' = batchNo + 1
          /\ attempt' = 0 /\ invocations' = 0 /\ failCount' = 0 /\ lastError' = NoError
          /\ pc' = "translating"
     ELSE /\ UNCHANGED <<batchNo, retryVars>>
          /\ pc' = "verifying"
  /\ UNCHANGED <<configVars, lookups, dedup, pending, batches, translations, sent, raised, output,
                 dedupVars, planVars, backendVars, googleVars, storeVars>>

\* translate, lines 81-84
Verifying ==
  /\ pc = "verifying"
  /\ IF Missing(resolved) # {}
     THEN /\ raised' = [kind |-> "missing", attempt |-> 0]
          /\ pc' = "failed"
          /\ UNCHANGED output
     ELSE /\ output' = FinalOutput(resolved)
          /\ pc' = "done"
          /\ UNCHANGED raised
  /\ UNCHANGED <<configVars, writes, lookups, cacheVars, dedup, pending, resolved, batches, batchNo,
                 retryVars, translations, sent, received, completed, progress,
                 dedupVars, planVars, backendVars, googleVars, storeVars>>

Next ==
  \/ Deduplicating
  \/ CacheResolving
  \/ NothingPending
  \/ Batching
  \/ AttemptFails
  \/ Retrying
  \/ AttemptReturns
  \/ MismatchRaised
  \/ CacheWritingScattering
  \/ Verifying

(***************************************************************************)
(* translate_texts of the two DeepL backends, against a provider that      *)
(* answers each request with an error or with any number of translations.  *)
(***************************************************************************)
\* deepl_api.translate_texts, lines 156-162, and deepl_web.translate_texts,
\* lines 241-247: a short list is filled up with "", a long one is left as is.
PadWithEmpty(translated, n) ==
  IF Len(translated) < n
  THEN translated \o [i \in 1..(n - Len(translated)) |-> << >>]
  ELSE translated

ProviderTranslations(k) == [i \in 1..k |-> <<"T">>]

ApiErrors == {"invalid_key", "quota_exceeded", "too_many_requests", "http_error",
              "connection_error"}
WebErrors == {"rate_limit", "http_error", "connection_error", "rpc_error"}
NoBackendError == "none"

\* One request to the provider, as translate_texts sent it: call is the _retry
\* attempt that made the translate_texts call (0 when translate_texts is
\* called directly), offset the sub-batch (0 for deepl_api), ok whether the
\* provider answered with translations.
Request(offset, ok) == [call |-> rtAttempt, offset |-> offset, ok |-> ok]

BackendIdle ==
  /\ bkVariant = "none"
  /\ bkTexts = << >>
  /\ bkPc = "off"
  /\ bkOffset = 0 /\ bkAttempt = 0
  /\ bkResults = << >> /\ bkReplies = << >> /\ bkSent = << >>
  /\ bkRaised = NoBackendError

BackendInit ==
  /\ bkVariant \in {"deepl_api", "deepl_web"}
  /\ bkTexts \in {[i \in 1..n |-> <<"a">>] : n \in 0..MaxReqTexts}
  /\ bkPc = "called"
  /\ bkOffset = 0 /\ bkAttempt = 0
  /\ bkResults = << >> /\ bkReplies = << >> /\ bkSent = << >>
  /\ bkRaised = NoBackendError

\* deepl_api, lines 110-112, and deepl_web, lines 203-205
EmptyRequest ==
  /\ bkPc = "called"
  /\ bkTexts = << >>
  /\ bkPc' = "returned"
  /\ UNCHANGED <<bkVariant, bkTexts, bkOffset, bkAttempt, bkResults, bkReplies, bkSent, bkRaised,
                 dedupVars, planVars, orchVars, googleVars, storeVars>>

\* deepl_api.translate_texts, lines 114-149: the request fails
ApiRequestFails ==
  /\ bkVariant = "deepl_api"
  /\ bkPc = "called"
  /\ bkTexts # << >>
  /\ \E e \in ApiErrors : bkRaised' = e
  /\ bkSent' = Append(bkSent, Request(0, FALSE))
  /\ bkPc' = "raised"
  /\ UNCHANGED <<bkVariant, bkTexts, bkOffset, bkAttempt, bkResults, bkReplies,
                 dedupVars, planVars, orchVars, googleVars, storeVars>>

\* deepl_api.translate_texts, lines 114-164: status 200 with k translations
ApiRequestSucceeds ==
  /\ bkVariant = "deepl_api"
  /\ bkPc = "called"
  /\ bkTexts # << >>
  /\ \E k \in 0..(Len(bkTexts) + 1) :
       /\ bkReplies' = Append(bkReplies, [sent |-> Len(bkTexts), got |-> k])
       /\ bkSent' = Append(bkSent, Request(0, TRUE))
       /\ bkResults' = PadWithEmpty(ProviderTranslations(k), Len(bkTexts))
  /\ bkPc' = "returned"
  /\ UNCHANGED <<bkVariant, bkTexts, bkOffset, bkAttempt, bkRaised,
                 dedupVars, planVars, orchVars, googleVars, storeVars>>

\* deepl_web.translate_texts, line 211: batch = texts[i:i + batch_size]
WebSubBatch ==
  SubSeq(bkTexts, bkOffset + 1,
         IF bkOffset + WEB_BATCH_SIZE < Len(bkTexts) THEN bkOffset + WEB_BATCH_SIZE
         ELSE Len(bkTexts))

\* deepl_web.translate_texts, lines 207-215: entering the sub-batch loop
WebStartsBatches ==
  /\ bkVariant = "deepl_web"
  /\ bkPc = "called"
  /\ bkTexts # << >>
  /\ bkPc' = "requesting"
  /\ UNCHANGED <<bkVariant, bkTexts, bkOffset, bkAttempt, bkResults, bkReplies, bkSent, bkRaised,
                 dedupVars, planVars, orchVars, googleVars, storeVars>>

WebSubBatchFailsOnceMore ==
  /\ bkVariant = "deepl_web"
  /\ bkPc = "requesting"
  /\ \E e \in WebErrors :
       IF bkAttempt < WEB_MAX_RETRIES
       THEN /\ bkAttempt' = bkAttempt + 1
            /\ UNCHANGED <<bkPc, bkRaised>>
       ELSE /\ bkRaised' = e
            /\ bkPc' = "raised"
            /\ UNCHANGED bkAttempt
  /\ bkSent' = Append(bkSent, Request(bkOffset, FALSE))
  /\ UNCHANGED <<bkVariant, bkTexts, bkOffset, bkResults, bkReplies,
                 dedupVars, planVars, orchVars, googleVars, storeVars>>

\* deepl_web.translate_texts, lines 216-238, with _translate_batch_internal,
\* lines 141-196, raising a RuntimeError
WebSubBatchFails ==
  /\ bkVariant = "deepl_web"
  /\ bkPc = "requesting"
  /\ \E e \in WebErrors :
       IF bkAttempt < WEB_MAX_RETRIES - 1
       THEN /\ bkAttempt' = bkAttempt + 1
            /\ UNCHANGED <<bkPc, bkRaised>>
       ELSE /\ bkRaised' = e
            /\ bkPc' = "raised"
            /\ UNCHANGED bkAttempt
  /\ bkSent' = Append(bkSent, Request(bkOffset, FALSE))
  /\ UNCHANGED <<bkVariant, bkTexts, bkOffset, bkResults, bkReplies,
                 dedupVars, planVars, orchVars, googleVars, storeVars>>

\* deepl_web.translate_texts, lines 216-238: the except clause names
\* RuntimeError only, so what _translate_batch_internal raises otherwise (the
\* session's total timeout at lines 160-172, a reply without "translations"
\* at line 183) leaves translate_texts at once.
NonRuntimeErrors == {"timeout_error", "key_error"}

WebSubBatchRaisesOther ==
  /\ bkVariant = "deepl_web"
  /\ bkPc = "requesting"
  /\ \E e \in NonRuntimeErrors : bkRaised' = e
  /\ bkPc' = "raised"
  /\ bkSent' = Append(bkSent, Request(bkOffset, FALSE))
  /\ UNCHANGED <<bkVariant, bkTexts, bkOffset, bkAttempt, bkResults, bkReplies,
                 dedupVars, planVars, orchVars, googleVars, storeVars>>

\* deepl_web.translate_texts, lines 216-228, with _translate_batch_internal,
\* lines 141-196, returning k translations; after the last sub-batch,
\* lines 240-249
WebSubBatchSucceeds ==
  /\ bkVariant = "deepl_web"
  /\ bkPc = "requesting"
  /\ \E k \in 0..(Len(WebSubBatch) + 1) :
       /\ bkReplies' = Append(bkReplies, [sent |-> Len(WebSubBatch), got |-> k])
       /\ bkSent' = Append(bkSent, Request(bkOffset, TRUE))
       /\ IF bkOffset + WEB_BATCH_SIZE < Len(bkTexts)
          THEN /\ bkResults' = bkResults \o ProviderTranslations(k)
               /\ bkOffset' = bkOffset + WEB_BATCH_SIZE
               /\ bkAttempt' = 0
               /\ UNCHANGED bkPc
          ELSE /\ bkResults' = PadWithEmpty(bkResults \o ProviderTranslations(k), Len(bkTexts))
               /\ bkPc' = "returned"
               /\ UNCHANGED <<bkOffset, bkAttempt>>
  /\ UNCHANGED <<bkVariant, bkTexts, bkRaised, dedupVars, planVars, orchVars, googleVars, storeVars>>

NextBackend ==
  \/ EmptyRequest
  \/ ApiRequestFails
  \/ ApiRequestSucceeds
  \/ WebStartsBatches
  \/ WebSubBatchFails
  \/ WebSubBatchRaisesOther
  \/ WebSubBatchSucceeds

(***************************************************************************)
(* GoogleTranslator: the racing backend.  Endpoint k of google_endpoints   *)
(* is the number k; _endpoint_failures is a function on 1..n in which an   *)
(* endpoint never recorded counts 0, as _endpoint_failures.get(ep, 0)      *)
(* reads it.                                                               *)
(***************************************************************************)
MinOf(S) == CHOOSE m \in S : \A x \in S : m <= x

\* _get_next_endpoint, line 90
MinFailures(failures, n) == MinOf({failures[e] : e \in 1..n})

\* A filter that lets endpoints three failures above the minimum through.
AvailableSlackThree(failures, n) ==
  SelectSeq([e \in 1..n |-> e],
            LAMBDA e : failures[e] <= MinFailures(failures, n) + FAILURE_SLACK + 1)

\* A filter with the slack taken off the minimum instead of added to it.
AvailableSlackSubtracted(failures, n) ==
  SelectSeq([e \in 1..n |-> e],
            LAMBDA e : failures[e] <= MinFailures(failures, n) - FAILURE_SLACK)

\* _get_next_endpoint, lines 91-94
Available(failures, n) ==
  SelectSeq([e \in 1..n |-> e],
            LAMBDA e : failures[e] <= MinFailures(failures, n) + FAILURE_SLACK)

\* _get_next_endpoint, lines 88-101.  endpoint 0 stands for the IndexError
\* of available[self._endpoint_index].
GetNextEndpoint(failures, index, n) ==
  LET qualifying == Available(failures, n)
      failures2 == IF qualifying = << >> THEN [e \in 1..n |-> 0] ELSE failures
      available == IF qualifying = << >> THEN [e \in 1..n |-> e] ELSE qualifying
      index2 == (index + 1) % Len(available)
  IN  [endpoint |-> IF index2 + 1 \in 1..Len(available) THEN available[index2 + 1] ELSE 0,
       index |-> index2,
       failures |-> failures2,
       available |-> available]

\* What one _get_next_endpoint call saw and returned.
PickRecord(got) ==
  [endpoint |-> got.endpoint, index |-> got.index, available |-> got.available,
   failures |-> got.failures]

\* k calls of _get_next_endpoint in a row, as in lines 159 and 258.
RECURSIVE PickEndpoints(_, _, _, _, _)
PickEndpoints(failures, index, n, k, acc) ==
  IF k = 0 THEN [eps |-> acc.eps, picks |-> acc.picks, failures |-> failures, index |-> index]
  ELSE LET got == GetNextEndpoint(failures, index, n)
       IN  PickEndpoints(got.failures, got.index, n, k - 1,
                         [eps |-> Append(acc.eps, got.endpoint),
                          picks |-> Append(acc.picks, PickRecord(got))])

NoPicks == [eps |-> << >>, picks |-> << >>]

\* _get_next_lingva, lines 103-106
GetNextLingva(index) == (index + 1) % LINGVA_INSTANCES

\* A counter that starts over once an endpoint has failed three times.
FailuresAfterForgiving(failures, endpoint, outcome) ==
  CASE outcome \in {"ok", "empty"} -> [failures EXCEPT ![endpoint] = 0]
    [] outcome = "fail" -> [failures EXCEPT ![endpoint] = IF @ > FAILURE_SLACK THEN 0 ELSE @ + 1]
    [] OTHER -> failures

\* try_endpoint, lines 150-154 and 225, 246, 252: the counter of an endpoint
\* after a request that succeeded ("ok", "empty"), failed ("fail"), or left
\* the counter alone.
FailuresAfter(failures, endpoint, outcome) ==
  CASE outcome \in {"ok", "empty"} -> [failures EXCEPT ![endpoint] = 0]
    [] outcome = "fail" -> [failures EXCEPT ![endpoint] = @ + 1]
    [] OTHER -> failures

(***************************************************************************)
(* A race: the tasks created for the picked endpoints (lines 160, 259) and *)
(* the asyncio.as_completed loop over them.  st[j] is the state of task j, *)
(* res[j] whether its try_endpoint returned a result the loop's            *)
(* `if result` accepts ("usable") or not ("nothing"), order the tasks in   *)
(* the order they completed, seen how many of them the loop has taken;     *)
(* parts[j] is len(parts) of a combined reply.                             *)
(***************************************************************************)
NoRace ==
  [eps |-> << >>, st |-> << >>, res |-> << >>, parts |-> << >>, order |-> << >>, seen |-> 0]

StartRace(eps) ==
  [eps |-> eps,
   st |-> [j \in 1..Len(eps) |-> "inflight"],
   res |-> [j \in 1..Len(eps) |-> "none"],
   parts |-> [j \in 1..Len(eps) |-> 0],
   order |-> << >>,
   seen |-> 0]

TaskCompleted(race, j, outcome) ==
  [race EXCEPT !.st[j] = "done",
               !.res[j] = IF outcome = "ok" THEN "usable" ELSE "nothing",
               !.order = Append(@, j)]

\* A winner that leaves its siblings running.
CancelSiblingsSkipped(st) == st

\* lines 165-167 and 266-268: cancel every task that is not done
CancelSiblings(st) ==
  [j \in 1..Len(st) |-> IF st[j] = "inflight" THEN "cancelled" ELSE st[j]]

\* lines 168 and 270: after the cancellation the loop returns at once, so it
\* awaits none of the other tasks.
AwaitedAfterWin(race, winner) == {}

NoGoogleError == "none"

\* The exception a cancelled task hands to the coroutine awaiting it.
SurfacedAfterWin(race, winner) ==
  IF \E j \in AwaitedAfterWin(race, winner) : CancelSiblings(race.st)[j] = "cancelled"
  THEN "CancelledError"
  ELSE NoGoogleError

\* A loop that gives up as soon as one task has failed.
RaceExhaustedAfterFirst(race) == race.seen >= 1

\* lines 162 and 262: the as_completed loop ends when it has taken every task
RaceExhausted(race) == race.seen = Len(race.eps)

(***************************************************************************)
(* One text's translate_one / _translate_single.                           *)
(*   stage   "waiting" for the semaphore, "racing", "lingva",              *)
(*           "lastresort", "done"                                          *)
(*   lingva      requests made to Lingva instances                         *)
(*   lastResort  last-resort requests made                                 *)
(*   result  what _translate_single returned (str | None), via the stage   *)
(*           that produced it                                              *)
(***************************************************************************)
WaitingTask ==
  [stage |-> "waiting", race |-> NoRace, lingva |-> 0, tried |-> << >>, lastResort |-> 0,
   via |-> "none", result |-> None, exc |-> NoGoogleError]

RacingTask(eps) == [WaitingTask EXCEPT !.stage = "racing", !.race = StartRace(eps)]

PrimaryTranslation(j) == <<"p", IF j = 1 THEN "1" ELSE "2">>
LingvaTranslation == <<"l">>
LastResortTranslation == <<"r">>
SeparatorPart == <<"s">>

\* lines 298, 309 and 329: result if result else ""
OrEmpty(result) == IF Truthy(result) THEN result.val ELSE << >>

\* What a request to an endpoint can come to, by the endpoint's behaviour.
\*   "ok"     a non-empty translation (lines 149-151)
\*   "empty"  status 200 whose parts join to "" (lines 149-151)
\*   "fail"   another status, unusable data or an exception (lines 152-154)
SingleOutcomes(mode) ==
  CASE mode = "succeeds" -> {"ok"}
    [] mode = "fails" -> {"fail"}
    [] mode = "blank" -> {"empty"}
    [] OTHER -> {"ok", "empty", "fail"}

\* What a combined request can come to:
\*   "ok"      status 200, the translation splits into as many parts as texts
\*   "long"    status 200, it splits into one part more (a separator doubled)
\*   "short"   status 200, it splits into one part less (a separator mangled)
\*   "nosegs"  status 200 without segments (lines 229-231)
\*   "fail"    another status or an exception (lines 224-226, 251-254)
SeparatorOutcomes(mode) ==
  CASE mode = "succeeds" -> {"ok", "long"}
    [] mode = "fails" -> {"fail"}
    [] mode = "blank" -> {"nosegs"}
    [] OTHER -> {"ok", "long", "short", "nosegs", "fail"}

\* len(parts) of a combined reply to n texts (line 238)
PartsOf(outcome, n) ==
  CASE outcome = "ok" -> n
    [] outcome = "long" -> n + 1
    [] outcome = "short" -> n - 1
    [] OTHER -> 0

\* A check that takes any number of parts.
PartsAcceptedAnyCount(outcome, n) == PartsOf(outcome, n) > 0

\* _try_batch_separator.try_endpoint, lines 229-247: the reply has segments
\* and len(parts) == len(texts)
PartsAccepted(outcome, n) == PartsOf(outcome, n) > 0 /\ PartsOf(outcome, n) = n

\* try_endpoint of _try_batch_separator: the counter is reset only for an
\* accepted reply (line 246) and raised only for a failed request.
SeparatorCounterEffect(outcome, n) ==
  CASE outcome = "fail" -> "fail"
    [] PartsAccepted(outcome, n) -> "ok"
    [] OTHER -> "untouched"

SeparatorCompleted(race, j, outcome, n) ==
  [race EXCEPT !.st[j] = "done",
               !.res[j] = IF PartsAccepted(outcome, n) THEN "usable" ELSE "nothing",
               !.parts[j] = PartsOf(outcome, n),
               !.order = Append(@, j)]

GoogleTextLens == {1, 700}

RECURSIVE SumOf(_)
SumOf(ns) == IF ns = << >> THEN 0 ELSE Head(ns) + SumOf(Tail(ns))

\* translate_texts, lines 331-334
SeparatorEligible(lens) == Len(lens) <= SEPARATOR_MAX_TEXTS /\ SumOf(lens) <= SEPARATOR_MAX_CHARS

MinNat(a, b) == IF a <= b THEN a ELSE b

GoogleIdle ==
  /\ gN = GOOGLE_ENDPOINTS
  /\ gMode = [e \in 1..GOOGLE_ENDPOINTS |-> "any"]
  /\ gLimit = 1
  /\ gFailures = [e \in 1..GOOGLE_ENDPOINTS |-> 0]
  /\ gIndex = 0 /\ gLingvaIndex = 0
  /\ gPhase = "off"
  /\ gLens = << >> /\ gSep = NoRace /\ gTask = << >> /\ gSem = 0
  /\ gPicks = << >> /\ gTriedSep = FALSE
  /\ gReturned = None /\ gRaised = NoGoogleError

CONCURRENCY_LIMIT == 16

\* __init__, lines 61-68, of a translator with n endpoints that answer as
\* modes says and with the concurrency limit limit.
GoogleConstructed(n, modes, limit) ==
  /\ gN = n
  /\ gMode = modes
  /\ gLimit = limit
  /\ gFailures = [e \in 1..gN |-> 0]
  /\ gIndex = 0 /\ gLingvaIndex = 0
  /\ gPhase = "idle"
  /\ gLens = << >> /\ gSep = NoRace /\ gTask = << >> /\ gSem = 0
  /\ gPicks = << >> /\ gTriedSep = FALSE
  /\ gReturned = None /\ gRaised = NoGoogleError

nonGoogleVars == <<dedupVars, planVars, orchVars, backendVars, storeVars>>

\* translate_texts, lines 323-325
GoogleCallEmpty ==
  /\ gPhase = "idle"
  /\ gLens' = << >>
  /\ gSep' = NoRace /\ gTask' = << >> /\ gPicks' = << >> /\ gTriedSep' = FALSE
  /\ gReturned' = Some(<< >>)
  /\ gRaised' = NoGoogleError
  /\ UNCHANGED <<googleConfigVars, endpointVars, gLingvaIndex, gPhase, gSem, nonGoogleVars>>

\* translate_texts, lines 327-328, and _translate_single, lines 131-162, up
\* to the first await of the race
GoogleCallSingle ==
  /\ gPhase = "idle"
  /\ \E len \in GoogleTextLens : gLens' = <<len>>
  /\ LET got == PickEndpoints(gFailures, gIndex, gN, RACE_SIZE, NoPicks)
     IN  /\ gFailures' = got.failures
         /\ gIndex' = got.index
         /\ gPicks' = got.picks
         /\ gTask' = <<RacingTask(got.eps)>>
  /\ gPhase' = "single"
  /\ gSep' = NoRace /\ gTriedSep' = FALSE
  /\ gReturned' = None /\ gRaised' = NoGoogleError
  /\ UNCHANGED <<googleConfigVars, gLingvaIndex, gSem, nonGoogleVars>>

GoogleBatchLens == {l \in ListsUpTo(GoogleTextLens, MaxGoogleTexts) : Len(l) >= 2}

\* translate_texts, lines 331-335, and _try_batch_separator, lines 207-262,
\* up to the first await of the race
GoogleCallSeparator ==
  /\ gPhase = "idle"
  /\ \E lens \in GoogleBatchLens :
       /\ SeparatorEligible(lens)
       /\ gLens' = lens
  /\ LET got == PickEndpoints(gFailures, gIndex, gN, MinNat(SEPARATOR_RACE_SIZE, gN), NoPicks)
     IN  /\ gFailures' = got.failures
         /\ gIndex' = got.index
         /\ gPicks' = got.picks
         /\ gSep' = StartRace(got.eps)
  /\ gPhase' = "separator"
  /\ gTask' = << >> /\ gTriedSep' = TRUE
  /\ gReturned' = None /\ gRaised' = NoGoogleError
  /\ UNCHANGED <<googleConfigVars, gLingvaIndex, gSem, nonGoogleVars>>

\* translate_texts, lines 331-341, and _translate_parallel, lines 293-301,
\* for a batch the separator method is not tried on
GoogleCallParallel ==
  /\ gPhase = "idle"
  /\ \E lens \in GoogleBatchLens :
       /\ ~SeparatorEligible(lens)
       /\ gLens' = lens
       /\ gTask' = [i \in 1..Len(lens) |-> WaitingTask]
  /\ gSem' = gLimit
  /\ gPhase' = "parallel"
  /\ gSep' = NoRace /\ gPicks' = << >> /\ gTriedSep' = FALSE
  /\ gReturned' = None /\ gRaised' = NoGoogleError
  /\ UNCHANGED <<googleConfigVars, endpointVars, gLingvaIndex, nonGoogleVars>>

\* _try_batch_separator.try_endpoint, lines 218-254: one request completes
SeparatorTaskCompletes ==
  /\ \E j \in 1..Len(gSep.eps) :
       /\ gSep.st[j] = "inflight"
       /\ \E outcome \in SeparatorOutcomes(gMode[gSep.eps[j]]) :
            /\ outcome = "fail" => gFailures[gSep.eps[j]] < MaxFailures
            /\ gSep' = SeparatorCompleted(gSep, j, outcome, Len(gLens))
            /\ gFailures' = FailuresAfter(gFailures, gSep.eps[j],
                                          SeparatorCounterEffect(outcome, Len(gLens)))
  /\ gPicks' = << >>
  /\ UNCHANGED <<googleConfigVars, gIndex, gLingvaIndex, gPhase, gLens, gTask, gSem,
                 gTriedSep, gReturned, gRaised, nonGoogleVars>>

SeparatorNext == gSep.order[gSep.seen + 1]

\* _try_batch_separator, lines 262-270, and translate_texts, lines 336-337:
\* the next completed request has a result
SeparatorAccepted ==
  /\ gPhase = "separator"
  /\ gSep.seen < Len(gSep.order)
  /\ gSep.res[SeparatorNext] = "usable"
  /\ gSep' = [gSep EXCEPT !.seen = @ + 1, !.st = CancelSiblings(@)]
  /\ gReturned' = Some([i \in 1..gSep.parts[SeparatorNext] |-> SeparatorPart])
  /\ gPhase' = "idle"
  /\ gPicks' = << >>
  /\ UNCHANGED <<googleConfigVars, endpointVars, gLingvaIndex, gLens, gTask, gSem,
                 gTriedSep, gRaised, nonGoogleVars>>

\* _try_batch_separator, lines 262-265 and 284: the next completed request
\* has none; after the last one, translate_texts, lines 339-341, and
\* _translate_parallel, lines 293-301
SeparatorRejected ==
  /\ gPhase = "separator"
  /\ gSep.seen < Len(gSep.order)
  /\ gSep.res[SeparatorNext] # "usable"
  /\ gSep' = [gSep EXCEPT !.seen = @ + 1]
  /\ IF RaceExhausted(gSep')
     THEN /\ gTask' = [i \in 1..Len(gLens) |-> WaitingTask]
          /\ gSem' = gLimit
          /\ gPhase' = "parallel"
     ELSE UNCHANGED <<gTask, gSem, gPhase>>
  /\ gPicks' = << >>
  /\ UNCHANGED <<googleConfigVars, endpointVars, gLingvaIndex, gLens,
                 gTriedSep, gReturned, gRaised, nonGoogleVars>>

\* _translate_parallel, lines 295-297: `async with sem` lets the text's task
\* in, and _translate_single, lines 131-162, runs up to the first await of
\* the race
Acquire ==
  /\ gPhase = "parallel"
  /\ gSem > 0
  /\ \E i \in 1..Len(gTask) :
       /\ gTask[i].stage = "waiting"
       /\ LET got == PickEndpoints(gFailures, gIndex, gN, RACE_SIZE, NoPicks)
          IN  /\ gFailures' = got.failures
              /\ gIndex' = got.index
              /\ gPicks' = got.picks
              /\ gTask' = [gTask EXCEPT ![i] = RacingTask(got.eps)]
  /\ gSem' = gSem - 1
  /\ UNCHANGED <<googleConfigVars, gLingvaIndex, gPhase, gLens, gSep, gTriedSep, gReturned,
                 gRaised, nonGoogleVars>>

\* A task that keeps its permit when its translation is over.
SemAfterReleaseKept == gSem

\* leaving `async with sem` (line 296) gives the permit back; a single text
\* (line 328) holds none
SemAfterRelease == IF gPhase = "parallel" THEN gSem + 1 ELSE gSem

\* _translate_single.try_endpoint, lines 139-155: one request completes
RaceTaskCompletes ==
  /\ \E i \in 1..Len(gTask) :
       \E j \in 1..Len(gTask[i].race.eps) :
         /\ gTask[i].race.st[j] = "inflight"
         /\ \E outcome \in SingleOutcomes(gMode[gTask[i].race.eps[j]]) :
              /\ outcome = "fail" => gFailures[gTask[i].race.eps[j]] < MaxFailures
              /\ gTask' = [gTask EXCEPT ![i].race = TaskCompleted(@, j, outcome)]
              /\ gFailures' = FailuresAfter(gFailures, gTask[i].race.eps[j], outcome)
  /\ gPicks' = << >>
  /\ UNCHANGED <<googleConfigVars, gIndex, gLingvaIndex, gPhase, gLens, gSep, gSem,
                 gTriedSep, gReturned, gRaised, nonGoogleVars>>

RaceNext(task) == task.race.order[task.race.seen + 1]

\* _translate_single, lines 162-168: the next completed request has a
\* usable result
RaceWon ==
  /\ \E i \in 1..Len(gTask) :
       /\ gTask[i].stage = "racing"
       /\ gTask[i].race.seen < Len(gTask[i].race.order)
       /\ gTask[i].race.res[RaceNext(gTask[i])] = "usable"
       /\ gTask' = [gTask EXCEPT
                      ![i].race.seen = @ + 1,
                      ![i].race.st = CancelSiblings(@),
                      ![i].exc = SurfacedAfterWin(gTask[i].race, RaceNext(gTask[i])),
                      ![i].via = "primary",
                      ![i].result = Some(PrimaryTranslation(RaceNext(gTask[i]))),
                      ![i].stage = "done"]
  /\ gSem' = SemAfterRelease
  /\ gPicks' = << >>
  /\ UNCHANGED <<googleConfigVars, endpointVars, gLingvaIndex, gPhase, gLens, gSep,
                 gTriedSep, gReturned, gRaised, nonGoogleVars>>

\* _translate_single, lines 162-164: the next completed request has none;
\* after the last one, lines 174-177
RaceLost ==
  /\ \E i \in 1..Len(gTask) :
       /\ gTask[i].stage = "racing"
       /\ gTask[i].race.seen < Len(gTask[i].race.order)
       /\ gTask[i].race.res[RaceNext(gTask[i])] # "usable"
       /\ LET race2 == [gTask[i].race EXCEPT !.seen = @ + 1]
          IN  gTask' = [gTask EXCEPT
                         ![i].race = race2,
                         ![i].stage = IF RaceExhausted(race2) THEN "lingva" ELSE "racing"]
  /\ gPicks' = << >>
  /\ UNCHANGED <<googleConfigVars, endpointVars, gLingvaIndex, gPhase, gLens, gSep, gSem,
                 gTriedSep, gReturned, gRaised, nonGoogleVars>>

\* What a request to a Lingva instance can come to:
\*   "translation"  status 200 with a non-empty translation (lines 119-122)
\*   "blank"        status 200 with an empty translation (lines 119-122)
\*   "fail"         anything else (lines 119-125)
LingvaOutcomes == {"translation", "blank", "fail"}

\* _translate_via_lingva, lines 112-127, one instance, and _translate_single,
\* lines 177-179 when it returns
LingvaAttempt ==
  /\ \E i \in 1..Len(gTask) :
       /\ gTask[i].stage = "lingva"
       /\ \E outcome \in LingvaOutcomes :
            gTask' = [gTask EXCEPT
              ![i].lingva = @ + 1,
              ![i].tried = IF outcome = "fail" /\ gTask[i].lingva + 1 < LINGVA_INSTANCES
                           THEN Append(@, GetNextLingva(gLingvaIndex))
                           ELSE << >>,
              ![i].via = IF outcome = "translation" THEN "lingva" ELSE @,
              ![i].result = IF outcome = "translation" THEN Some(LingvaTranslation) ELSE @,
              ![i].stage =
                CASE outcome = "translation" -> "done"
                  [] outcome = "blank" -> "lastresort"
                  [] OTHER -> IF gTask[i].lingva + 1 = LINGVA_INSTANCES
                              THEN "lastresort" ELSE "lingva"]
       /\ gSem' = IF gTask'[i].stage = "done" THEN SemAfterRelease ELSE gSem
  /\ gLingvaIndex' = GetNextLingva(gLingvaIndex)
  /\ gPicks' = << >>
  /\ UNCHANGED <<googleConfigVars, endpointVars, gPhase, gLens, gSep,
                 gTriedSep, gReturned, gRaised, nonGoogleVars>>

\* The exception urllib.parse.quote raises for a text it cannot encode.
QuoteError == "UnicodeEncodeError"

\* _translate_via_lingva, line 114: quote(text) is outside the try, so for a
\* text it cannot encode the first turn of the loop raises, and the
\* exception leaves _translate_single (line 177) and `async with sem`.
LingvaRaises ==
  /\ \E i \in 1..Len(gTask) :
       /\ gTask[i].stage = "lingva"
       /\ gTask[i].lingva = 0
       /\ gTask' = [gTask EXCEPT ![i].exc = QuoteError, ![i].stage = "done"]
  /\ gSem' = SemAfterRelease
  /\ gPicks' = << >>
  /\ UNCHANGED <<googleConfigVars, endpointVars, gLingvaIndex, gPhase, gLens, gSep,
                 gTriedSep, gReturned, gRaised, nonGoogleVars>>

\* What the last-resort request can come to: a non-empty translation, an
\* empty one, or nothing (lines 194-199).
LastResortOutcomes == {"ok", "empty", "fail"}

\* _translate_single, lines 181-201
LastResort ==
  /\ \E i \in 1..Len(gTask) :
       /\ gTask[i].stage = "lastresort"
       /\ \E outcome \in LastResortOutcomes :
            gTask' = [gTask EXCEPT
              ![i].lastResort = @ + 1,
              ![i].via = IF outcome = "ok" THEN "lastresort" ELSE @,
              ![i].result = CASE outcome = "ok" -> Some(LastResortTranslation)
                              [] outcome = "empty" -> Some(<< >>)
                              [] OTHER -> None,
              ![i].stage = "done"]
  /\ gSem' = SemAfterRelease
  /\ gPicks' = << >>
  /\ UNCHANGED <<googleConfigVars, endpointVars, gLingvaIndex, gPhase, gLens, gSep,
                 gTriedSep, gReturned, gRaised, nonGoogleVars>>

\* translate_texts, lines 328-329
SingleReturns ==
  /\ gPhase = "single"
  /\ gTask[1].stage = "done"
  /\ IF gTask[1].exc # NoGoogleError
     THEN gRaised' = gTask[1].exc /\ gReturned' = None
     ELSE gRaised' = gRaised /\ gReturned' = Some(<<OrEmpty(gTask[1].result)>>)
  /\ gPhase' = "idle"
  /\ gTask' = << >>
  /\ gPicks' = << >>
  /\ UNCHANGED <<googleConfigVars, endpointVars, gLingvaIndex, gLens, gSep, gSem,
                 gTriedSep, nonGoogleVars>>

\* A collection that puts what gather handed over into the list as it is.
FinalResultUnchecked(task) ==
  IF task.exc # NoGoogleError THEN <<task.exc>> ELSE OrEmpty(task.result)

\* _translate_parallel, lines 304-309: "" for a task that raised, else
\* result if result else ""
FinalResult(task) ==
  IF task.exc # NoGoogleError THEN << >> ELSE OrEmpty(task.result)

\* _translate_parallel, lines 301-314, and translate_texts, line 341
ParallelReturns ==
  /\ gPhase = "parallel"
  /\ \A i \in 1..Len(gTask) : gTask[i].stage = "done"
  /\ gReturned' = Some([i \in 1..Len(gTask) |-> FinalResult(gTask[i])])
  /\ gPhase' = "idle"
  /\ gTask' = << >>
  /\ gPicks' = << >>
  /\ UNCHANGED <<googleConfigVars, endpointVars, gLingvaIndex, gLens, gSep, gSem,
                 gTriedSep, gRaised, nonGoogleVars>>

NextGoogleBatch ==
  \/ GoogleCallEmpty
  \/ GoogleCallSingle
  \/ GoogleCallSeparator
  \/ GoogleCallParallel
  \/ SeparatorTaskCompletes
  \/ SeparatorAccepted
  \/ SeparatorRejected
  \/ Acquire
  \/ RaceTaskCompletes
  \/ RaceWon
  \/ RaceLost
  \/ LingvaAttempt
  \/ LingvaRaises
  \/ LastResort
  \/ SingleReturns
  \/ ParallelReturns

(***************************************************************************)
(* TranslationMemory on its own: construction from a file of any content,  *)
(* then get, set and flush calls one after another.                        *)
(*   A file is [kind, map]:                                                *)
(*     "absent"       no file                                              *)
(*     "unparseable"  text json.load cannot parse (an empty file too)      *)
(*     "undecodable"  bytes that are not UTF-8                             *)
(*     "array"        JSON that is not an object, such as []               *)
(*     "nonstring"    a JSON object with a value that is not a string      *)
(*     "mapping"      a JSON object of strings, map holding it             *)
(*   _data is [kind, map] with kind "dict", "nonstring" (a dict with a     *)
(*   value that is not a string) or "array" (no dict at all).              *)
(***************************************************************************)
MemKeys == {<<"k">>, <<"j">>}
MemValues == {<<"v">>, <<"w">>}
NonString == <<"#">>

FileOf(kind, map) == [kind |-> kind, map |-> map]
DataOf(kind, map) == [kind |-> kind, map |-> map]

FileContents ==
  {FileOf(kind, EmptyDict) : kind \in {"absent", "unparseable", "undecodable", "array"}}
    \cup {FileOf("nonstring", [x \in {key} |-> NonString]) : key \in MemKeys}
    \cup {FileOf("mapping", d) : d \in DictsOver(MemKeys, MemValues, 1)}

NoMemoryError == "none"

\* _load, lines 23-31: the file and _data it leaves, and what it raises.
\* json.load hands back whatever JSON value the file holds; only
\* JSONDecodeError is caught.
Load(file) ==
  LET present == IF file.kind = "absent" THEN FileOf("mapping", EmptyDict) ELSE file
  IN  CASE present.kind = "mapping" ->
             [file |-> present, data |-> DataOf("dict", present.map), raised |-> NoMemoryError]
        [] present.kind = "unparseable" ->
             [file |-> present, data |-> DataOf("dict", EmptyDict), raised |-> NoMemoryError]
        [] present.kind = "undecodable" ->
             [file |-> present, data |-> DataOf("dict", EmptyDict),
              raised |-> "UnicodeDecodeError"]
        [] OTHER ->
             [file |-> present, data |-> DataOf(present.kind, present.map),
              raised |-> NoMemoryError]

\* json.dump of _data, line 49
JsonDump(data) == FileOf(IF data.kind = "dict" THEN "mapping" ELSE data.kind, data.map)

\* self._data.get(key), line 35: a list has no get
DataGet(data, key) ==
  IF data.kind = "array"
  THEN [result |-> None, raised |-> "AttributeError"]
  ELSE [result |-> TranslationMemoryGet(data.map, key), raised |-> NoMemoryError]

\* The memory's state as one value.
MemorySnapshot == [data |-> tmData, dirty |-> tmDirty, file |-> tmFile]

MemoryIdle ==
  /\ tmPhase = "off"
  /\ tmFile = FileOf("absent", EmptyDict)
  /\ tmBuiltFrom = "absent"
  /\ tmData = DataOf("dict", EmptyDict)
  /\ tmDirty = FALSE
  /\ tmAutoFlush = AUTO_FLUSH_DEFAULT
  /\ tmRaised = NoMemoryError
  /\ tmLog = << >>
  /\ tmLock = 0
  /\ tmThread = << >>
  /\ tmIntended = EmptyDict

\* TranslationMemory(path, auto_flush=...), lines 15-20, before _load
MemoryInit ==
  /\ tmPhase = "unbuilt"
  /\ tmFile \in FileContents
  /\ tmBuiltFrom = tmFile.kind
  /\ tmData = DataOf("dict", EmptyDict)
  /\ tmDirty = FALSE
  /\ tmAutoFlush \in BOOLEAN
  /\ tmRaised = NoMemoryError
  /\ tmLog = << >>
  /\ tmLock = 0
  /\ tmThread = << >>
  /\ tmIntended = EmptyDict

\* __init__, line 21, and _load
MemoryConstruct ==
  /\ tmPhase = "unbuilt"
  /\ LET loaded == Load(tmFile)
     IN  /\ tmFile' = loaded.file
         /\ tmData' = loaded.data
         /\ tmRaised' = loaded.raised
         /\ tmPhase' = IF loaded.raised = NoMemoryError THEN "ready" ELSE "failed"
  /\ UNCHANGED <<tmBuiltFrom, tmDirty, tmAutoFlush, tmLog, memoryThreadVars, sessionVars, retryExecVars,
                 dedupVars, planVars, orchVars, backendVars, googleVars>>

\* get, lines 33-35
MemoryGet ==
  /\ tmPhase = "ready"
  /\ Len(tmLog) < MaxMemOps
  /\ \E key \in MemKeys :
       LET got == DataGet(tmData, key)
       IN  tmLog' = Append(tmLog, [op |-> "get", key |-> key, value |-> << >>,
                                   result |-> got.result, raised |-> got.raised,
                                   wrote |-> FALSE,
                                   before |-> MemorySnapshot, after |-> MemorySnapshot])
  /\ UNCHANGED <<tmPhase, tmFile, tmBuiltFrom, tmData, tmDirty, tmAutoFlush, tmRaised,
                 memoryThreadVars, sessionVars, retryExecVars,
                 dedupVars, planVars, orchVars, backendVars, googleVars>>

\* set, lines 37-40: the assignment and the dirty mark under the lock.  A
\* list takes no string index, so the assignment raises and the flag stays.
MemorySet ==
  /\ tmPhase = "ready"
  /\ Len(tmLog) < MaxMemOps
  /\ \E key \in MemKeys, value \in MemValues :
       IF tmData.kind = "array"
       THEN /\ tmLog' = Append(tmLog, [op |-> "set", key |-> key, value |-> value,
                                       result |-> None, raised |-> "TypeError",
                                       wrote |-> FALSE,
                                       before |-> MemorySnapshot, after |-> MemorySnapshot])
            /\ UNCHANGED <<tmData, tmDirty, tmPhase>>
       ELSE LET mem == TranslationMemoryAssign([data |-> tmData.map, dirty |-> tmDirty],
                                               key, value)
            IN  /\ tmData' = DataOf(tmData.kind, mem.data)
                /\ tmDirty' = mem.dirty
                /\ tmPhase' = IF tmAutoFlush THEN "autoflush" ELSE "ready"
                /\ tmLog' = Append(tmLog, [op |-> "set", key |-> key, value |-> value,
                                           result |-> None, raised |-> NoMemoryError,
                                           wrote |-> FALSE,
                                           before |-> MemorySnapshot,
                                           after |-> [data |-> tmData', dirty |-> tmDirty',
                                                      file |-> tmFile]])
  /\ UNCHANGED <<tmFile, tmBuiltFrom, tmAutoFlush, tmRaised, memoryThreadVars, sessionVars, retryExecVars,
                 dedupVars, planVars, orchVars, backendVars, googleVars>>

\* A flush that writes the file whether or not anything changed.
FlushWritesAlways(dirty) == TRUE

\* flush, lines 46-47: nothing is written unless dirty
FlushWrites(dirty) == dirty

\* flush, lines 44-50, called by the user or by set (line 42)
MemoryFlush ==
  /\ \/ tmPhase = "autoflush"
     \/ tmPhase = "ready" /\ Len(tmLog) < MaxMemOps
  /\ IF FlushWrites(tmDirty)
     THEN /\ tmFile' = JsonDump(tmData)
          /\ tmDirty' = FALSE
     ELSE UNCHANGED <<tmFile, tmDirty>>
  /\ tmLog' = Append(tmLog, [op |-> "flush", key |-> << >>, value |-> << >>,
                             result |-> None, raised |-> NoMemoryError,
                             wrote |-> FlushWrites(tmDirty),
                             before |-> MemorySnapshot,
                             after |-> [data |-> tmData, dirty |-> tmDirty',
                                        file |-> tmFile']])
  /\ tmPhase' = "ready"
  /\ UNCHANGED <<tmBuiltFrom, tmData, tmAutoFlush, tmRaised, memoryThreadVars, sessionVars, retryExecVars,
                 dedupVars, planVars, orchVars, backendVars, googleVars>>

NextMemory ==
  \/ MemoryConstruct
  \/ MemoryGet
  \/ MemorySet
  \/ MemoryFlush

(***************************************************************************)
(* TranslationMemory shared by threads.  Each thread makes calls one after *)
(* another; a call is a sequence of steps, other threads running between   *)
(* them.  `with self._lock` is an acquire that waits for the lock and a    *)
(* release on leaving the block.  set, with auto_flush on, leaves its own  *)
(* block and then calls flush, which takes the lock again.                 *)
(*   tmThread[t] = [pc, key, value, calls]                                 *)
(*   tmLock      = the thread holding the lock, 0 for none                 *)
(*   tmIntended  = for each key assigned by a set, the last value assigned *)
(***************************************************************************)
Threads == 1..MemThreads
NoThread == 0

ThreadIdle == [pc |-> "idle", key |-> << >>, value |-> << >>, calls |-> 0]

MemoryThreadsInit ==
  /\ tmPhase = "ready"
  /\ tmFile \in {FileOf("mapping", d) : d \in DictsOver(MemKeys, MemValues, 1)}
  /\ tmBuiltFrom = tmFile.kind
  /\ tmData = Load(tmFile).data
  /\ tmDirty = FALSE
  /\ tmAutoFlush = AUTO_FLUSH_DEFAULT
  /\ tmRaised = NoMemoryError
  /\ tmLog = << >>
  /\ tmLock = NoThread
  /\ tmThread = [t \in Threads |-> ThreadIdle]
  /\ tmIntended = EmptyDict

\* A lock anyone may take at any time.
LockFreeAlways(lock) == TRUE

\* threading.Lock: acquired only when no thread holds it
LockFree(lock) == lock = NoThread

AtPc(t, label) == tmThread[t].pc = label
GoTo(t, label) == tmThread' = [tmThread EXCEPT ![t].pc = label]
Return(t) == tmThread' = [tmThread EXCEPT ![t].pc = "idle", ![t].calls = @ + 1]

memoryRest == <<sessionVars, retryExecVars, dedupVars, planVars, orchVars, backendVars, googleVars>>

\* A thread calls get(key), set(key, value) or flush().
ThreadCalls ==
  /\ \E t \in Threads :
       /\ AtPc(t, "idle")
       /\ tmThread[t].calls < MaxThreadCalls
       /\ \/ \E key \in MemKeys :
               tmThread' = [tmThread EXCEPT ![t].pc = "get_acquire", ![t].key = key]
          \/ \E key \in MemKeys, value \in MemValues :
               tmThread' = [tmThread EXCEPT ![t].pc = "set_acquire", ![t].key = key,
                                            ![t].value = value]
          \/ GoTo(t, "flush_acquire")
  /\ UNCHANGED <<memoryVars, tmLock, tmIntended, memoryRest>>

\* `with self._lock:` of get (34), set (38) and flush (45)
ThreadAcquires ==
  /\ \E t \in Threads :
       /\ tmThread[t].pc \in {"get_acquire", "set_acquire", "flush_acquire"}
       /\ LockFree(tmLock)
       /\ tmLock' = t
       /\ GoTo(t, CASE AtPc(t, "get_acquire") -> "get_read"
                    [] AtPc(t, "set_acquire") -> "set_assign"
                    [] OTHER -> "flush_check")
  /\ UNCHANGED <<memoryVars, tmIntended, memoryRest>>

\* get, line 35, and the release
GetReads ==
  /\ \E t \in Threads :
       /\ AtPc(t, "get_read")
       /\ Return(t)
  /\ tmLock' = NoThread
  /\ UNCHANGED <<memoryVars, tmIntended, memoryRest>>

\* set, line 39
SetAssigns ==
  /\ \E t \in Threads :
       /\ AtPc(t, "set_assign")
       /\ tmData' = [tmData EXCEPT !.map = DictSet(@, tmThread[t].key, tmThread[t].value)]
       /\ tmIntended' = DictSet(tmIntended, tmThread[t].key, tmThread[t].value)
       /\ GoTo(t, "set_mark")
  /\ UNCHANGED <<tmPhase, tmFile, tmBuiltFrom, tmDirty, tmAutoFlush, tmRaised, tmLog,
                 tmLock, memoryRest>>

\* set, line 40, the release, and lines 41-42
SetMarks ==
  /\ \E t \in Threads :
       /\ AtPc(t, "set_mark")
       /\ tmDirty' = TRUE
       /\ IF tmAutoFlush THEN GoTo(t, "flush_acquire") ELSE Return(t)
  /\ tmLock' = NoThread
  /\ UNCHANGED <<tmPhase, tmFile, tmBuiltFrom, tmData, tmAutoFlush, tmRaised, tmLog,
                 tmIntended, memoryRest>>

\* flush, lines 46-47
FlushChecks ==
  /\ \E t \in Threads :
       /\ AtPc(t, "flush_check")
       /\ IF FlushWrites(tmDirty)
          THEN GoTo(t, "flush_open") /\ UNCHANGED tmLock
          ELSE Return(t) /\ tmLock' = NoThread
  /\ UNCHANGED <<memoryVars, tmIntended, memoryRest>>

\* flush, line 48: open("w") empties the file
FlushOpens ==
  /\ \E t \in Threads :
       /\ AtPc(t, "flush_open")
       /\ GoTo(t, "flush_dump")
  /\ tmFile' = FileOf("unparseable", EmptyDict)
  /\ UNCHANGED <<tmPhase, tmBuiltFrom, tmData, tmDirty, tmAutoFlush, tmRaised, tmLog,
                 tmLock, tmIntended, memoryRest>>

\* flush, line 49, and the close
FlushDumps ==
  /\ \E t \in Threads :
       /\ AtPc(t, "flush_dump")
       /\ GoTo(t, "flush_clear")
  /\ tmFile' = JsonDump(tmData)
  /\ UNCHANGED <<tmPhase, tmBuiltFrom, tmData, tmDirty, tmAutoFlush, tmRaised, tmLog,
                 tmLock, tmIntended, memoryRest>>

\* flush, line 50, and the release
FlushClears ==
  /\ \E t \in Threads :
       /\ AtPc(t, "flush_clear")
       /\ Return(t)
  /\ tmDirty' = FALSE
  /\ tmLock' = NoThread
  /\ UNCHANGED <<tmPhase, tmFile, tmBuiltFrom, tmData, tmAutoFlush, tmRaised, tmLog,
                 tmIntended, memoryRest>>

NextMemoryThreads ==
  \/ ThreadCalls
  \/ ThreadAcquires
  \/ GetReads
  \/ SetAssigns
  \/ SetMarks
  \/ FlushChecks
  \/ FlushOpens
  \/ FlushDumps
  \/ FlushClears

(***************************************************************************)
(* SessionCache shared by threads.  It has no lock.  get goes through the  *)
(* lru_cache wrapper: a lookup in the memo, on a miss the call of _fetch,  *)
(* then the insertion of what _fetch returned unless the key has appeared  *)
(* in the memo meanwhile; other threads run between these steps.  set is   *)
(* the store assignment followed by cache_clear.                           *)
(*   scMemo      = the memo, least recently used entry first               *)
(*   scThread[t] = [pc, key, value, calls, local, want, clean]             *)
(*     local  what _fetch returned                                         *)
(*     want   for a get: the store's entry for the key when the get began  *)
(*     clean  for a get: no set on its key was under way when it began and *)
(*            none has begun since                                         *)
(*   scLog       = the gets that returned: [key, result, want, clean]      *)
(***************************************************************************)
SessionThreadIdle ==
  [pc |-> "idle", key |-> << >>, value |-> << >>, calls |-> 0, local |-> None,
   want |-> None, clean |-> FALSE]

SessionThreadsInit ==
  /\ scStore \in DictsOver(MemKeys, MemValues, 1)
  /\ scMemo = << >>
  /\ scThread = [t \in Threads |-> SessionThreadIdle]
  /\ scLog = << >>

MemoHas(memo, key) == \E i \in 1..Len(memo) : memo[i].key = key
MemoIndex(memo, key) == CHOOSE i \in 1..Len(memo) : memo[i].key = key
MemoWithout(memo, key) == SelectSeq(memo, LAMBDA e : e.key # key)

\* A memo hit: the entry becomes the most recently used.
MemoTouch(memo, key) == Append(MemoWithout(memo, key), memo[MemoIndex(memo, key)])

\* A new entry; a full memo drops its least recently used entry.
MemoInsert(memo, key, val) ==
  LET room == IF Len(memo) >= SessionMaxsize THEN Tail(memo) ELSE memo
  IN  Append(room, [key |-> key, val |-> val])

SetUnderWay(key) ==
  \E t \in Threads : scThread[t].pc \in {"set_store", "set_clear"} /\ scThread[t].key = key

sessionRest == <<memoryVars, memoryThreadVars, retryExecVars, dedupVars, planVars, orchVars, backendVars,
                 googleVars>>

\* A thread calls get(key), line 61
SessionCallsGet ==
  /\ \E t \in Threads, key \in MemKeys :
       /\ scThread[t].pc = "idle"
       /\ scThread[t].calls < MaxThreadCalls
       /\ scThread' = [scThread EXCEPT ![t].pc = "get_lookup", ![t].key = key,
                                       ![t].value = << >>, ![t].local = None,
                                       ![t].want = DictGet(scStore, key),
                                       ![t].clean = ~SetUnderWay(key)]
  /\ UNCHANGED <<scStore, scMemo, scLog, sessionRest>>

\* A thread calls set(key, value), line 64.  Every get of that key under
\* way now overlaps a set.
SessionCallsSet ==
  /\ \E t \in Threads, key \in MemKeys, value \in MemValues :
       /\ scThread[t].pc = "idle"
       /\ scThread[t].calls < MaxThreadCalls
       /\ scThread' = [u \in Threads |->
                         IF u = t
                         THEN [scThread[u] EXCEPT !.pc = "set_store", !.key = key,
                                                  !.value = value]
                         ELSE IF scThread[u].key = key
                              THEN [scThread[u] EXCEPT !.clean = FALSE]
                              ELSE scThread[u]]
  /\ UNCHANGED <<scStore, scMemo, scLog, sessionRest>>

SessionReturns(t, result) ==
  /\ scThread' = [scThread EXCEPT ![t].pc = "idle", ![t].calls = @ + 1]
  /\ scLog' = Append(scLog, [key |-> scThread[t].key, result |-> result,
                             want |-> scThread[t].want, clean |-> scThread[t].clean])

\* lru_cache wrapper: the lookup; a hit returns the memo's value
SessionLookup ==
  /\ \E t \in Threads :
       /\ scThread[t].pc = "get_lookup"
       /\ IF MemoHas(scMemo, scThread[t].key)
          THEN /\ SessionReturns(t, scMemo[MemoIndex(scMemo, scThread[t].key)].val)
               /\ scMemo' = MemoTouch(scMemo, scThread[t].key)
          ELSE /\ scThread' = [scThread EXCEPT ![t].pc = "get_fetch"]
               /\ UNCHANGED <<scMemo, scLog>>
  /\ UNCHANGED <<scStore, sessionRest>>

\* _fetch, lines 58-59
SessionFetch ==
  /\ \E t \in Threads :
       /\ scThread[t].pc = "get_fetch"
       /\ scThread' = [scThread EXCEPT ![t].pc = "get_insert",
                                       ![t].local = DictGet(scStore, scThread[t].key)]
  /\ UNCHANGED <<scStore, scMemo, scLog, sessionRest>>

\* lru_cache wrapper: the result goes into the memo and is returned
SessionInsert ==
  /\ \E t \in Threads :
       /\ scThread[t].pc = "get_insert"
       /\ SessionReturns(t, scThread[t].local)
       /\ scMemo' = IF MemoHas(scMemo, scThread[t].key)
                    THEN scMemo
                    ELSE MemoInsert(scMemo, scThread[t].key, scThread[t].local)
  /\ UNCHANGED <<scStore, sessionRest>>

\* set, line 65
SessionStores ==
  /\ \E t \in Threads :
       /\ scThread[t].pc = "set_store"
       /\ scStore' = DictSet(scStore, scThread[t].key, scThread[t].value)
       /\ scThread' = [scThread EXCEPT ![t].pc = "set_clear"]
  /\ UNCHANGED <<scMemo, scLog, sessionRest>>

\* set, line 66
SessionClears ==
  /\ \E t \in Threads :
       /\ scThread[t].pc = "set_clear"
       /\ scThread' = [scThread EXCEPT ![t].pc = "idle", ![t].calls = @ + 1]
  /\ scMemo' = << >>
  /\ UNCHANGED <<scStore, scLog, sessionRest>>

NextSessionThreads ==
  \/ SessionCallsGet
  \/ SessionCallsSet
  \/ SessionLookup
  \/ SessionFetch
  \/ SessionInsert
  \/ SessionStores
  \/ SessionClears

SessionIdle ==
  /\ scStore = EmptyDict
  /\ scMemo = << >>
  /\ scThread = << >>
  /\ scLog = << >>

(***************************************************************************)
(* TranslationOrchestrator._retry, orchestrator.py lines 136-150, around    *)
(* the action _translate_pending gives it (lines 105-108): one              *)
(* translate_texts call of a DeepL backend.  Delays are fractions of a      *)
(* second.                                                                  *)
(***************************************************************************)
Fraction(n, d) == [num |-> n, den |-> d]
FracMul(a, b) == Fraction(a.num * b.num, a.den * b.den)
FracEq(a, b) == a.num * b.den = b.num * a.den
FracLe(a, b) == a.num * b.den <= b.num * a.den

\* orchestrator.py line 138: delay = 1.0
INITIAL_DELAY == Fraction(1, 1)
\* config.py lines 15-16
BACKOFF_FACTOR_DEFAULT == Fraction(3, 2)
BACKOFF_JITTER_DEFAULT == Fraction(1, 4)

BackoffFactors == {BACKOFF_FACTOR_DEFAULT, Fraction(2, 1)}

RetryPolicies ==
  {[max_attempts |-> m, backoff_factor |-> f, backoff_jitter |-> BACKOFF_JITTER_DEFAULT] :
     m \in 1..MaxAttemptsBound, f \in BackoffFactors}

\* policies with backoff_jitter = 0, whose sleeps are exactly the delay
JitterFreePolicies ==
  {[max_attempts |-> m, backoff_factor |-> BACKOFF_FACTOR_DEFAULT,
    backoff_jitter |-> Fraction(0, 1)] : m \in 1..MaxNestedAttempts}

\* random.uniform(0, b), line 148: a value of [0, b], here one of JitterSteps + 1
\* evenly spaced ones
Uniform(b) == {Fraction(j * b.num, JitterSteps * b.den) : j \in 0..JitterSteps}

NextDelayUnchanged(delay, policy) == delay

\* line 150: delay *= self.retry_policy.backoff_factor
NextDelay(delay, policy) == FracMul(delay, policy.backoff_factor)

Event(kind, n, delay, jitter) == [kind |-> kind, n |-> n, delay |-> delay, jitter |-> jitter]
NoTime == Fraction(0, 1)

RetryIdle ==
  /\ rtPc = "off"
  /\ rtPolicy = [max_attempts |-> MAX_ATTEMPTS_DEFAULT, backoff_factor |-> BACKOFF_FACTOR_DEFAULT,
                 backoff_jitter |-> BACKOFF_JITTER_DEFAULT]
  /\ rtLogCb = FALSE
  /\ rtAttempt = 0
  /\ rtDelay = INITIAL_DELAY
  /\ rtEvents = << >>

\* lines 137-138, for a batch _build_batches made (never an empty one):
\* either any policy around the one-request backend, or a jitter-free policy
\* around the sub-batching backend
RetryInit ==
  /\ rtPc = "loop"
  /\ \/ /\ bkVariant = "deepl_api"
        /\ rtPolicy \in RetryPolicies
        /\ rtLogCb \in BOOLEAN
        /\ bkTexts = <<<<"a">>>>
     \/ /\ bkVariant = "deepl_web"
        /\ rtPolicy \in JitterFreePolicies
        /\ rtLogCb = TRUE
        /\ bkTexts \in {[i \in 1..n |-> <<"a">>] : n \in 1..MaxReqTexts}
  /\ rtAttempt = 0
  /\ rtDelay = INITIAL_DELAY
  /\ rtEvents = << >>
  /\ bkPc = "off"
  /\ bkOffset = 0 /\ bkAttempt = 0
  /\ bkResults = << >> /\ bkReplies = << >> /\ bkSent = << >>
  /\ bkRaised = NoBackendError

retryRest == <<memoryVars, memoryThreadVars, sessionVars, dedupVars, planVars, orchVars,
               googleVars>>

\* lines 139-142: attempt += 1, then action() starts a translate_texts call,
\* whose results list is a new one (deepl_web.py line 207)
RetryAttempts ==
  /\ rtPc = "loop"
  /\ rtAttempt' = rtAttempt + 1
  /\ rtEvents' = Append(rtEvents, Event("attempt", rtAttempt + 1, NoTime, NoTime))
  /\ rtPc' = "awaiting"
  /\ bkPc' = "called"
  /\ bkOffset' = 0 /\ bkAttempt' = 0
  /\ bkResults' = << >> /\ bkReplies' = << >>
  /\ bkRaised' = NoBackendError
  /\ UNCHANGED <<rtPolicy, rtLogCb, rtDelay, bkVariant, bkTexts, bkSent, retryRest>>

\* line 142: return await action()
RetryReturns ==
  /\ rtPc = "awaiting"
  /\ bkPc = "returned"
  /\ rtEvents' = Append(rtEvents, Event("return", rtAttempt, NoTime, NoTime))
  /\ rtPc' = "returned"
  /\ UNCHANGED <<rtPolicy, rtLogCb, rtAttempt, rtDelay, backendVars, retryRest>>

\* lines 143-147: the except clause up to the raise
RetryCatches ==
  /\ rtPc = "awaiting"
  /\ bkPc = "raised"
  /\ LET logged == IF rtLogCb
                   THEN Append(rtEvents, Event("log", rtAttempt, NoTime, NoTime))
                   ELSE rtEvents
     IN  IF rtAttempt >= rtPolicy.max_attempts
         THEN /\ rtEvents' = Append(logged, Event("raise", rtAttempt, NoTime, NoTime))
              /\ rtPc' = "raised"
         ELSE /\ rtEvents' = logged
              /\ rtPc' = "sleeping"
  /\ UNCHANGED <<rtPolicy, rtLogCb, rtAttempt, rtDelay, backendVars, retryRest>>

\* lines 148-150: the sleep and the longer delay
RetrySleeps ==
  /\ rtPc = "sleeping"
  /\ \E jitter \in Uniform(rtPolicy.backoff_jitter) :
       rtEvents' = Append(rtEvents, Event("sleep", rtAttempt, rtDelay, jitter))
  /\ rtDelay' = NextDelay(rtDelay, rtPolicy)
  /\ rtPc' = "loop"
  /\ UNCHANGED <<rtPolicy, rtLogCb, rtAttempt, backendVars, retryRest>>

NextRetry ==
  \/ RetryAttempts
  \/ RetryReturns
  \/ RetryCatches
  \/ RetrySleeps
  \/ ApiRequestFails
  \/ ApiRequestSucceeds
  \/ WebStartsBatches
  \/ WebSubBatchFails
  \/ WebSubBatchRaisesOther
  \/ WebSubBatchSucceeds

StoreIdle == MemoryIdle /\ SessionIdle /\ RetryIdle

(***************************************************************************)
(* Specifications: one per component, the other components staying idle.   *)
(***************************************************************************)
Init == DedupIdle /\ PlanIdle /\ OrchInit /\ BackendIdle /\ GoogleIdle /\ StoreIdle

Spec == Init /\ [][Next]_vars

InitBackend == DedupIdle /\ PlanIdle /\ OrchIdle /\ BackendInit /\ GoogleIdle /\ StoreIdle

SpecBackend == InitBackend /\ [][NextBackend]_vars

InitRetry ==
  DedupIdle /\ PlanIdle /\ OrchIdle /\ GoogleIdle /\ MemoryIdle /\ SessionIdle /\ RetryInit

SpecRetry == InitRetry /\ [][NextRetry]_vars

NextDedup == Deduplicate

InitDedup == DedupInit /\ PlanIdle /\ OrchIdle /\ BackendIdle /\ GoogleIdle /\ StoreIdle

SpecDedup == InitDedup /\ [][NextDedup]_vars

NextPlan == PlanChunks \/ PlanBatches

InitPlan == DedupIdle /\ PlanInit /\ OrchIdle /\ BackendIdle /\ GoogleIdle /\ StoreIdle

SpecPlan == InitPlan /\ [][NextPlan]_vars

\* GoogleTranslator as the class defines it, four endpoints that may answer
\* anything, asked for one text at a time.
GoogleInit ==
  GoogleConstructed(GOOGLE_ENDPOINTS, [e \in 1..GOOGLE_ENDPOINTS |-> "any"], CONCURRENCY_LIMIT)

NextGoogle ==
  \/ GoogleCallEmpty
  \/ GoogleCallSingle
  \/ RaceTaskCompletes
  \/ RaceWon
  \/ RaceLost
  \/ LingvaAttempt
  \/ LingvaRaises
  \/ LastResort
  \/ SingleReturns

InitGoogle == DedupIdle /\ PlanIdle /\ OrchIdle /\ BackendIdle /\ GoogleInit /\ StoreIdle

SpecGoogle == InitGoogle /\ [][NextGoogle]_vars

\* A translator with two endpoints, each of which always fails or always
\* succeeds, or which both always answer with an empty translation, asked
\* for batches of any kind.
GoogleBatchModes == [1..2 -> {"fails", "succeeds"}] \cup {<<"blank", "blank">>}

GoogleBatchInit ==
  \E modes \in GoogleBatchModes, limit \in 1..MaxPermits :
    GoogleConstructed(2, modes, limit)

InitGoogleBatch == DedupIdle /\ PlanIdle /\ OrchIdle /\ BackendIdle /\ GoogleBatchInit /\ StoreIdle

SpecGoogleBatch == InitGoogleBatch /\ [][NextGoogleBatch]_vars

\* A translator with two endpoints of which one always fails and the other
\* always succeeds or always answers with an empty translation, or which
\* both answer with an empty translation, asked for one text after another
\* without end.  Every request comes to an end (the timeouts of lines 118,
\* 145 and 189), the event loop resumes every coroutine that can go on, and
\* the caller keeps calling.
GoogleFairModes ==
  {<<"fails", "succeeds">>, <<"succeeds", "fails">>, <<"fails", "blank">>, <<"blank", "blank">>}

GoogleFairInit ==
  \E modes \in GoogleFairModes : GoogleConstructed(2, modes, CONCURRENCY_LIMIT)

InitGoogleFair == DedupIdle /\ PlanIdle /\ OrchIdle /\ BackendIdle /\ GoogleFairInit /\ StoreIdle

FairGoogle ==
  /\ WF_vars(GoogleCallSingle)
  /\ WF_vars(RaceTaskCompletes)
  /\ WF_vars(RaceWon)
  /\ WF_vars(RaceLost)
  /\ WF_vars(LingvaAttempt)
  /\ WF_vars(LastResort)
  /\ WF_vars(SingleReturns)

InitMemory ==
  /\ DedupIdle /\ PlanIdle /\ OrchIdle /\ BackendIdle /\ GoogleIdle /\ MemoryInit /\ SessionIdle
  /\ RetryIdle

SpecMemory == InitMemory /\ [][NextMemory]_vars

InitMemoryThreads ==
  /\ DedupIdle /\ PlanIdle /\ OrchIdle /\ BackendIdle /\ GoogleIdle
  /\ MemoryThreadsInit /\ SessionIdle /\ RetryIdle

SpecMemoryThreads == InitMemoryThreads /\ [][NextMemoryThreads]_vars

InitSessionThreads ==
  /\ DedupIdle /\ PlanIdle /\ OrchIdle /\ BackendIdle /\ GoogleIdle
  /\ MemoryIdle /\ SessionThreadsInit /\ RetryIdle

SpecSessionThreads == InitSessionThreads /\ [][NextSessionThreads]_vars

SpecGoogleFair == InitGoogleFair /\ [][NextGoogle]_vars /\ FairGoogle

\* A translator with two endpoints, one failing and one succeeding or both
\* answering with an empty translation, with the declared concurrency limit
\* or with a single permit, asked for batches too large for the combined
\* request, so that every call is one _translate_parallel call.  Every
\* request comes to an end, the event loop resumes every coroutine that can
\* go on, and the semaphore wakes a waiting task when a permit is free.
GoogleParallelModes == {<<"fails", "succeeds">>, <<"blank", "blank">>}

GoogleParallelLimits == {1, CONCURRENCY_LIMIT}

GoogleParallelInit ==
  \E modes \in GoogleParallelModes, limit \in GoogleParallelLimits :
    GoogleConstructed(2, modes, limit)

InitGoogleParallel ==
  DedupIdle /\ PlanIdle /\ OrchIdle /\ BackendIdle /\ GoogleParallelInit /\ StoreIdle

NextGoogleParallel ==
  \/ GoogleCallParallel
  \/ Acquire
  \/ RaceTaskCompletes
  \/ RaceWon
  \/ RaceLost
  \/ LingvaAttempt
  \/ LingvaRaises
  \/ LastResort
  \/ ParallelReturns

\* A step of a call under way: some coroutine that can go on does.
ParallelProgress ==
  \/ Acquire
  \/ RaceTaskCompletes
  \/ RaceWon
  \/ RaceLost
  \/ LingvaAttempt
  \/ LingvaRaises
  \/ LastResort
  \/ ParallelReturns

FairParallel == WF_vars(ParallelProgress)

SpecGoogleParallel == InitGoogleParallel /\ [][NextGoogleParallel]_vars /\ FairParallel

(***************************************************************************)
(* Properties of deduplicate_texts.                                        *)
(***************************************************************************)
GroupsOf(i) == {g \in 1..Len(dResult.groups) : i \in SeqToSet(dResult.groups[g])}

\* C3: after deduplicate_texts, any two indices holding the same string are
\* in the same group.
C3_ExactDuplicatesShareGroup ==
  dDone =>
    \A i, j \in 1..Len(dTexts) :
      (i < j /\ dTexts[i] = dTexts[j]) =>
        \E g \in 1..Len(dResult.groups) :
          {i, j} \subseteq SeqToSet(dResult.groups[g])

\* C4: the groups partition the indices 1..N: every index is in exactly one
\* group and occurs there once, no group is empty, there are as many unique
\* texts as groups, and an empty input gives an empty result.
C4_GroupsPartitionIndexes ==
  dDone =>
    /\ Len(dResult.unique_texts) = Len(dResult.groups)
    /\ \A i \in 1..Len(dTexts) : Cardinality(GroupsOf(i)) = 1
    /\ \A g \in 1..Len(dResult.groups) :
         /\ dResult.groups[g] # << >>
         /\ SeqToSet(dResult.groups[g]) \subseteq 1..Len(dTexts)
         /\ Cardinality(SeqToSet(dResult.groups[g])) = Len(dResult.groups[g])
    /\ (dTexts = << >> => dResult = [unique_texts |-> << >>, groups |-> << >>])

\* A run that grouped two indices together and kept another one apart.
C4_Witness ==
  /\ dDone
  /\ Len(dTexts) = 3
  /\ Len(dResult.groups) = 2
  /\ \E g \in 1..2 : Len(dResult.groups[g]) = 2

(***************************************************************************)
(* Properties of the batch planner.                                        *)
(***************************************************************************)
\* C10 as stated: no batch exceeds maxChars characters or maxItems entries.
C10_NoBatchExceedsLimits ==
  /\ pChunked =>
       \A b \in 1..Len(pChunks) :
         SumLens(pChunks[b]) <= pMaxChars /\ Len(pChunks[b]) <= pMaxItems
  /\ pBuilt =>
       \A b \in 1..Len(pBatches) :
         SumLens(EntryTexts(pBatches[b])) <= pMaxChars /\ Len(pBatches[b]) <= pMaxItems

\* C10 amended: no batch has more than maxItems entries, and a batch exceeds
\* maxChars characters only when it consists of one entry that is itself
\* longer than maxChars.
C10_LimitsExceptOversizedSingleton ==
  /\ pChunked =>
       \A b \in 1..Len(pChunks) :
         /\ Len(pChunks[b]) <= pMaxItems
         /\ SumLens(pChunks[b]) > pMaxChars =>
              Len(pChunks[b]) = 1 /\ Len(pChunks[b][1]) > pMaxChars
  /\ pBuilt =>
       \A b \in 1..Len(pBatches) :
         /\ Len(pBatches[b]) <= pMaxItems
         /\ SumLens(EntryTexts(pBatches[b])) > pMaxChars =>
              Len(pBatches[b]) = 1 /\ Len(pBatches[b][1].text) > pMaxChars

\* Both planners ran and produced a full batch, a batch closed by the
\* character budget and a batch holding one oversized entry.
C10_Witness ==
  /\ pChunked /\ pBuilt
  /\ \E b \in 1..Len(pChunks) : Len(pChunks[b]) = pMaxItems /\ pMaxItems > 1
  /\ \E b \in 1..Len(pBatches) : SumLens(EntryTexts(pBatches[b])) > pMaxChars
  /\ \E b \in 1..Len(pChunks) : SumLens(pChunks[b]) > pMaxChars
  /\ Len(pBatches) >= 3

RECURSIVE Flatten(_)
Flatten(bs) == IF bs = << >> THEN << >> ELSE Head(bs) \o Flatten(Tail(bs))

\* C11: the batches of either planner, concatenated in order, are the input
\* sequence itself (nothing dropped, duplicated, split or reordered), and no
\* batch is empty.
C11_BatchesConcatenateToInput ==
  /\ pChunked =>
       /\ Flatten(pChunks) = pItems
       /\ \A b \in 1..Len(pChunks) : pChunks[b] # << >>
  /\ pBuilt =>
       /\ Flatten(pBatches) = PlanEntries
       /\ \A b \in 1..Len(pBatches) : pBatches[b] # << >>

\* Both planners ran on four entries of different lengths, the second one
\* longer than maxChars, and split them into several batches.
C11_Witness ==
  /\ pChunked /\ pBuilt
  /\ Len(pItems) = 4
  /\ Len(pItems[2]) > pMaxChars
  /\ Len(pItems[1]) # Len(pItems[3])
  /\ Len(pChunks) >= 2
  /\ \E b \in 1..Len(pBatches) : Len(pBatches[b]) >= 2

(***************************************************************************)
(* Properties of TranslationOrchestrator.translate.                        *)
(***************************************************************************)
KeyOfUnique(k) == MakeCacheKey(dedup.unique_texts[k], SourceLang, TargetLang)

\* What the two tiers held for a key when translate was called: the session
\* value if it is non-empty, else the durable value.
CachedAtCall(key) ==
  LET fromSession == DictGet(sessAtCall, key)
      fromMemory == DictGet(memAtCall, key)
  IN  IF fromSession.has /\ fromSession.val # << >> THEN fromSession ELSE fromMemory

RetriesExhausted == pc = "failed" /\ raised.kind \notin {"mismatch", "missing"}

\* C1: when translate returns, the returned list has len(texts) entries and
\* no slot of resolved is None.
C1_OutputCoversInput ==
  pc = "done" =>
    /\ Len(output) = Len(texts)
    /\ \A i \in 1..Len(texts) : resolved[i].has

\* A call that returned three entries, one resolved from the cache and the
\* others by the backend.
C1_Witness ==
  /\ pc = "done"
  /\ Len(output) = 3
  /\ progress[1] = 1
  /\ sent # {}

\* C2 as stated: a unique text whose key is present in either tier when
\* translate is called, whatever the stored value, is never passed to the
\* backend; if all unique texts are present the backend is not invoked.
C2_PresentKeyNeverSent ==
  /\ \A k \in 1..Len(dedup.unique_texts) :
       KeyOfUnique(k) \in (DOMAIN sessAtCall) \cup (DOMAIN memAtCall) =>
         dedup.unique_texts[k] \notin sent
  /\ (\A k \in 1..Len(dedup.unique_texts) :
        KeyOfUnique(k) \in (DOMAIN sessAtCall) \cup (DOMAIN memAtCall)) =>
       sent = {}

\* C12: for every unique text the session cache is consulted, and before the
\* durable memory is; when the session cache held a value for the key at the
\* call, the durable memory is not consulted for that key and the value the
\* session cache held is the one written to the output.
C12_SessionValueTakesPrecedence ==
  pc \notin {"off", "called", "resolving"} =>
    \A k \in 1..Len(dedup.unique_texts) :
      LET key == KeyOfUnique(k)
      IN  /\ \E i \in 1..Len(lookups) : lookups[i] = Lookup("session", key)
          /\ \A j \in 1..Len(lookups) :
               lookups[j] = Lookup("memory", key) =>
                 \E i \in 1..(j - 1) : lookups[i] = Lookup("session", key)
          /\ key \in DOMAIN sessAtCall =>
               /\ \A j \in 1..Len(lookups) : lookups[j] # Lookup("memory", key)
               /\ pc = "done" =>
                    \A n \in 1..Len(dedup.groups[k]) :
                      output[dedup.groups[k][n]] = sessAtCall[key]

\* C13: at the moment a fresh translation is written to the output slots,
\* the session cache, the durable memory and (auto-flush being the default)
\* the durable file all map the entry's cache key to that translation; every
\* fresh translation is written that way, nothing is ever left waiting for a
\* flush, and the keys written stay in both tiers and in the file whatever
\* happens to later batches.
C13_WriteThrough ==
  /\ \A w \in 1..Len(writes) :
       /\ writes[w].session = Some(writes[w].value)
       /\ writes[w].memory = Some(writes[w].value)
       /\ writes[w].file = Some(writes[w].value)
       /\ writes[w].key \in (DOMAIN sessStore) \cap (DOMAIN memData) \cap (DOMAIN memFile)
  /\ \A i \in DOMAIN received :
       \E w \in 1..Len(writes) : writes[w].index = i /\ writes[w].value = received[i]
  /\ memFile = memData
  /\ ~memDirty

\* The first batch was translated and written, then the second batch used
\* up its retries: the first batch's translation is in the file.
C13_Witness ==
  /\ RetriesExhausted
  /\ batchNo = 2
  /\ Len(writes) >= 1
  /\ writes[1].value = <<"T">>
  /\ writes[1].key \notin DOMAIN memAtCall
  /\ memFile[writes[1].key] = <<"T">>

\* C5: when translate returns, every index of a deduplication group holds
\* the same string: the value cached for the group's representative when
\* translate was called if that was a hit, else the translation the backend
\* returned for the representative.
C5_GroupSharesOneTranslation ==
  pc = "done" =>
    \A g \in 1..Len(dedup.groups) :
      LET cached == CachedAtCall(KeyOfUnique(g))
          expected == IF cached.has /\ cached.val # << >> THEN cached.val
                      ELSE received[dedup.groups[g][1]]
      IN  \A n \in 1..Len(dedup.groups[g]) : output[dedup.groups[g][n]] = expected

\* A call like ["Hello", "Hello", "Hi"]: indices 1 and 2 form one group
\* translated by the backend, index 3 another one.
C5_Witness ==
  /\ pc = "done"
  /\ dedup.groups = <<<<1, 2>>, <<3>>>>
  /\ texts[1] = texts[2]
  /\ 1 \in DOMAIN received
  /\ output[1] = <<"T">> /\ output[2] = <<"T">>

\* C6: _retry returns after f < maxAttempts failures followed by a success,
\* having invoked the action f + 1 times; it never gives up or stops
\* retrying while fewer than maxAttempts attempts have failed.
C6_RetrySucceedsAfterFailures ==
  /\ pc = "checking" => (failCount < maxAttempts /\ invocations = failCount + 1)
  /\ pc = "sleeping" => (failCount < maxAttempts /\ invocations = failCount)
  /\ RetriesExhausted => failCount >= maxAttempts

\* maxAttempts = 4 and an action that failed 3 times, then succeeded.
C6_Witness ==
  /\ pc = "checking"
  /\ maxAttempts = 4
  /\ failCount = 3
  /\ invocations = 4

\* C7: when every attempt fails, whatever the kinds of the errors, the
\* action is invoked exactly maxAttempts times and translate raises the
\* error of the last attempt unchanged.
C7_ExhaustedRetriesRaiseLastError ==
  RetriesExhausted =>
    /\ invocations = maxAttempts
    /\ failCount = maxAttempts
    /\ lastError.attempt = maxAttempts
    /\ lastError.kind \in ErrorKinds
    /\ raised = lastError

\* Four failed attempts, the last one with a permanent provider error.
C7_Witness ==
  /\ pc = "failed"
  /\ maxAttempts = 4
  /\ invocations = 4
  /\ raised = [kind |-> "permanent", attempt |-> 4]

\* C8: a returned list whose length differs from the batch's makes translate
\* raise at once: nothing of the batch reaches a cache tier, the durable
\* file or the output, the backend is not invoked again, and nothing
\* happens after translate has failed.
C8_MismatchIsFatal ==
  [][/\ pc # "failed"
     /\ (pc = "checking" /\ Len(translations) # Len(batches[batchNo])) =>
          /\ pc' = "failed"
          /\ raised'.kind = "mismatch"
          /\ UNCHANGED <<sessStore, memData, memFile, resolved, received, invocations, sent>>]_vars

\* The second batch's reply had the wrong length, after one failed attempt.
C8_Witness ==
  /\ pc = "failed"
  /\ raised.kind = "mismatch"
  /\ batchNo = 2
  /\ Len(translations) > Len(batches[batchNo])
  /\ invocations = 2
  /\ Missing(resolved) # {}

(***************************************************************************)
(* Properties of the backends' translate_texts.                            *)
(***************************************************************************)
\* C9: when a provider reply holds a number of translations different from
\* the number of texts sent, translate_texts does not return a list of
\* exactly len(request.texts) strings.
C9_MismatchNotRepaired ==
  (/\ bkPc = "returned"
   /\ \E r \in 1..Len(bkReplies) : bkReplies[r].got # bkReplies[r].sent)
    => Len(bkResults) # Len(bkTexts)

(***************************************************************************)
(* Properties of GoogleTranslator.                                         *)
(***************************************************************************)
Usable(task, j) == task.race.res[j] = "usable"

\* The positions, in completion order, of the race's requests that came to
\* a usable translation.
UsablePositions(task) ==
  {k \in 1..Len(task.race.order) : Usable(task, task.race.order[k])}

\* C14: once the race loop of a text has taken a request with a usable
\* translation, _translate_single has returned that very translation (the
\* loop never goes past a usable one), no request of that race is left in
\* flight, the cancelled ones gave the text no exception, and
\* translate_texts raised no CancelledError.
C14_FirstSuccessWinsAndCancels ==
  /\ gRaised # "CancelledError"
  /\ \A i \in 1..Len(gTask) :
       LET task == gTask[i]
           taken == {k \in UsablePositions(task) : k <= task.race.seen}
       IN  /\ taken # {} =>
                /\ taken = {task.race.seen}
                /\ task.stage = "done"
                /\ task.via = "primary"
                /\ task.result = Some(PrimaryTranslation(task.race.order[task.race.seen]))
                /\ Truthy(task.result)
                /\ \A j \in 1..Len(task.race.eps) : task.race.st[j] # "inflight"
                /\ task.exc = NoGoogleError
           /\ task.via = "primary" => taken # {}

\* A single text whose first request to complete won while the other one
\* was still in flight, and so was cancelled.
C14_Witness ==
  /\ gPhase = "single"
  /\ gTask[1].stage = "done"
  /\ gTask[1].via = "primary"
  /\ gTask[1].race.seen = 1
  /\ \E j \in 1..2 : gTask[1].race.st[j] = "cancelled"

\* Every request of a text's race has completed without a usable result.
PrimaryAllFailed(task) ==
  /\ Len(task.race.eps) = RACE_SIZE
  /\ \A j \in 1..Len(task.race.eps) :
       task.race.st[j] = "done" /\ task.race.res[j] = "nothing"

SelectionSound(pick) ==
  /\ pick.endpoint \in 1..gN
  /\ pick.failures[pick.endpoint] <= MinFailures(pick.failures, gN) + FAILURE_SLACK
  /\ pick.index \in 0..(Len(pick.available) - 1)
  /\ pick.available[pick.index + 1] = pick.endpoint

\* C16: every call _get_next_endpoint has made, and the call it would make
\* from the counters and cursor of any reachable state, returns an endpoint
\* of the list whose failure count is at most the least count plus 2, with
\* the cursor inside the qualifying list.
C16_SelectionWithinSlack ==
  /\ \A k \in 1..Len(gPicks) : SelectionSound(gPicks[k])
  /\ gPhase # "off" => SelectionSound(PickRecord(GetNextEndpoint(gFailures, gIndex, gN)))
  /\ gPhase # "off" => gIndex \in 0..(gN - 1)

\* A call made while an endpoint was out of rotation, more than
\* FAILURE_SLACK failures above the least count, with the cursor wrapping
\* around the shorter qualifying list.
C16_Witness ==
  \E k \in 1..Len(gPicks) :
    /\ Len(gPicks[k].available) < gN
    /\ \E e \in 1..gN :
         gPicks[k].failures[e] > MinFailures(gPicks[k].failures, gN) + FAILURE_SLACK
    /\ gPicks[k].index = 0
    /\ k > 1

\* _get_next_endpoint has just returned endpoint e.
Selected(e) == \E k \in 1..Len(gPicks) : gPicks[k].endpoint = e

\* C17: while texts keep being asked for, every endpoint of the translator
\* is selected by _get_next_endpoint again and again.
C17_EveryEndpointSelectedAgain ==
  \A e \in 1..GOOGLE_ENDPOINTS : []<>(e \in 1..gN => Selected(e))

\* The translator has two endpoints, one that always fails and one that
\* always succeeds.
OneFailsOneSucceeds ==
  /\ gN = 2
  /\ gMode \in {<<"fails", "succeeds">>, <<"succeeds", "fails">>}

FailingEndpoint == CHOOSE e \in 1..gN : gMode[e] = "fails"

\* Every text whose _translate_single has returned got a non-empty
\* translation from the race, no text is with Lingva or the last resort, and
\* what translate_texts returned has a non-empty translation for each text.
EveryTextFromPrimary ==
  /\ \A i \in 1..Len(gTask) :
       /\ gTask[i].stage \in {"waiting", "racing", "done"}
       /\ gTask[i].lingva = 0 /\ gTask[i].lastResort = 0
       /\ gTask[i].stage = "done" =>
            /\ gTask[i].via = "primary"
            /\ Truthy(gTask[i].result)
            /\ gTask[i].exc = NoGoogleError
  /\ gRaised = NoGoogleError
  /\ gReturned # None =>
       /\ Len(gReturned.val) = Len(gLens)
       /\ \A i \in 1..Len(gReturned.val) : gReturned.val[i] # << >>

\* C18: with one endpoint that always fails and one that always succeeds,
\* whatever translate_texts is called with, every text gets a non-empty
\* translation from the primary endpoints, and no step lowers the failing
\* endpoint's failure counter.
C18_OneFailsOneSucceeds ==
  /\ [](OneFailsOneSucceeds => EveryTextFromPrimary)
  /\ [][OneFailsOneSucceeds => gFailures'[FailingEndpoint] >= gFailures[FailingEndpoint]]_vars

\* Two texts translated one by one after the failing endpoint had failed
\* often enough to be left out of the rotation.
C18_Witness ==
  /\ OneFailsOneSucceeds
  /\ gFailures[FailingEndpoint] > FAILURE_SLACK
  /\ gPhase = "idle"
  /\ Len(gLens) = 2
  /\ ~gTriedSep
  /\ gReturned = Some(<<PrimaryTranslation(1), PrimaryTranslation(2)>>)

\* The race loop of the combined request has taken a result it accepts.
SeparatorWon == gSep.seen >= 1 /\ gSep.res[gSep.order[gSep.seen]] = "usable"

\* The combined request's result is accepted only with as many parts as
\* texts, an accepted result is what translate_texts returns, and the texts
\* are translated one by one after a combined attempt only when every
\* request of that attempt came back without an accepted result.
CombinedResultRespected ==
  /\ \A j \in 1..Len(gSep.eps) :
       gSep.res[j] = "usable" => gSep.parts[j] = Len(gLens)
  /\ (gTriedSep /\ SeparatorWon) =>
       /\ gPhase = "idle"
       /\ gReturned = Some([i \in 1..Len(gLens) |-> SeparatorPart])
  /\ (gTriedSep /\ gPhase \in {"parallel", "idle"} /\ ~SeparatorWon) =>
       /\ gSep.seen = Len(gSep.eps)
       /\ \A j \in 1..Len(gSep.eps) : gSep.st[j] = "done" /\ gSep.res[j] = "nothing"
  /\ (gTriedSep /\ gPhase = "separator") => gTask = << >>

\* translate_texts is at work on, or has returned from, a batch of two or
\* more texts.
MultiTextBatch == Len(gLens) >= 2

\* C19 as stated: every batch of two or more texts, whatever its size, gets
\* the combined request first.
C19_CombinedRequestFirst ==
  /\ MultiTextBatch => gTriedSep
  /\ CombinedResultRespected

\* The batch has at most 8 texts and at most 1200 characters in all.
SmallBatch == Len(gLens) <= SEPARATOR_MAX_TEXTS /\ SumOf(gLens) <= SEPARATOR_MAX_CHARS

\* C19, amended: a batch of two or more texts gets the combined request
\* first exactly when it has at most 8 texts and at most 1200 characters in
\* all; a larger batch goes to the per-text translation with no combined
\* request made.
C19_CombinedRequestFirstWhenSmall ==
  /\ MultiTextBatch => (gTriedSep <=> SmallBatch)
  /\ (MultiTextBatch /\ ~SmallBatch) => gSep = NoRace
  /\ CombinedResultRespected

\* A small batch whose combined request came back from every endpoint with
\* no accepted result, from one of them with one part too many, and whose
\* texts are now translated one by one.
C19_Witness ==
  /\ MultiTextBatch /\ SmallBatch
  /\ gTriedSep
  /\ gPhase = "parallel"
  /\ \E j \in 1..Len(gSep.eps) : gSep.parts[j] = Len(gLens) + 1
  /\ \E i \in 1..Len(gTask) : gTask[i].stage = "done"

\* The texts whose _translate_single is in progress inside `async with sem`.
InProgress == {i \in 1..Len(gTask) : gTask[i].stage \in {"racing", "lingva", "lastresort"}}

\* Within a _translate_parallel call no more translations are in progress
\* than the concurrency limit, and the permits out are exactly those of the
\* translations in progress: a translation that is over, with a result or
\* without one, holds none.
PermitsAccountedFor ==
  gPhase = "parallel" =>
    /\ Cardinality(InProgress) <= gLimit
    /\ gSem \in 0..gLimit
    /\ gSem = gLimit - Cardinality(InProgress)

\* Text i's task waits for a permit.
WaitsForPermit(i) ==
  gPhase = "parallel" /\ i \in 1..Len(gTask) /\ gTask[i].stage = "waiting"

\* Text i's task has got its permit and run _translate_single.
HasRun(i) ==
  gPhase = "parallel" /\ i \in 1..Len(gTask) /\ gTask[i].stage # "waiting"

\* C20: within one _translate_parallel call at most concurrency_limit
\* translations are in progress at any instant, every permit is given back
\* when its translation is over, and every text's task that waits for a
\* permit eventually runs.
C20_FanOutBoundedAndFair ==
  /\ []PermitsAccountedFor
  /\ \A i \in 1..MaxGoogleTexts : WaitsForPermit(i) ~> HasRun(i)

\* With one permit: the first text's translation failed at every stage and
\* gave its permit back, and the second text's translation is in progress.
C20_Witness ==
  /\ gPhase = "parallel"
  /\ gLimit = 1
  /\ Len(gTask) >= 2
  /\ gTask[1].stage = "done" /\ gTask[1].result = None
  /\ gTask[2].stage = "racing"
  /\ gSem = 0

\* What the claim has at position i: the text's translation if its
\* _translate_single returned one, "" if it returned none or raised.
IsolatedResult(task) ==
  IF task.exc = NoGoogleError /\ task.result # None /\ task.result.val # << >>
  THEN task.result.val
  ELSE << >>

\* C21: the step by which _translate_parallel returns hands back one string
\* per text, in the texts' order, the text's own translation or "" when it
\* failed or raised, and raises nothing; and while the call is under way no
\* step of one text changes what a finished text has got.
C21_PerItemIsolation ==
  /\ [][(gPhase = "parallel" /\ gPhase' # "parallel") =>
          /\ gPhase' = "idle"
          /\ gRaised' = NoGoogleError
          /\ gReturned' # None
          /\ Len(gReturned'.val) = Len(gLens)
          /\ \A i \in 1..Len(gLens) : gReturned'.val[i] = IsolatedResult(gTask[i])]_vars
  /\ [][(gPhase = "parallel" /\ gPhase' = "parallel") =>
          /\ Len(gTask') = Len(gTask)
          /\ \A i \in 1..Len(gTask) :
               gTask[i].stage = "done" => gTask'[i] = gTask[i]]_vars
  /\ [](gPhase = "parallel" => gRaised = NoGoogleError /\ Len(gTask) = Len(gLens))

\* A batch of two texts translated one by one: the first text got nothing at
\* any stage, or raised, and has "", the second has Lingva's translation.
C21_Witness ==
  /\ gPhase = "idle"
  /\ Len(gLens) = 2
  /\ gReturned = Some(<< << >>, LingvaTranslation >>)

(***************************************************************************)
(* Properties of the progress reports.                                     *)
(***************************************************************************)
\* C22: the completed values handed to the progress callback never go down,
\* each lies between 0 and len(texts), and when translate has returned the
\* last one is len(texts).
C22_ProgressMonotoneAndComplete ==
  /\ \A k \in 1..Len(progress) : progress[k] \in 0..Len(texts)
  /\ \A k \in 1..(Len(progress) - 1) : progress[k] <= progress[k + 1]
  /\ pc = "done" => /\ progress # << >>
                    /\ progress[Len(progress)] = Len(texts)

\* A call that found one text cached and translated a group of two indexes
\* and then another text.
C22_Witness ==
  /\ pc = "done"
  /\ Len(texts) >= 3
  /\ Len(progress) >= 3
  /\ progress[1] >= 1
  /\ \E g \in 1..Len(dedup.groups) : Len(dedup.groups[g]) >= 2 /\ dedup.groups[g][1] \in DOMAIN received

\* C23: when translate has returned, the progress callback was invoked at
\* least as many times as there are deduplication groups.
C23_ProgressOncePerGroup ==
  pc = "done" => Len(progress) >= Len(dedup.groups)

(***************************************************************************)
(* Properties of the durable memory on its own.                            *)
(***************************************************************************)
Completed(e) == e.raised = NoMemoryError

GetIsPureRead ==
  \A i \in 1..Len(tmLog) :
    (tmLog[i].op = "get" /\ Completed(tmLog[i])) => tmLog[i].after = tmLog[i].before

SetUpdatesAndMarksDirty ==
  \A i \in 1..Len(tmLog) :
    LET e == tmLog[i]
    IN  (e.op = "set" /\ Completed(e)) =>
          /\ e.after.data.map = DictSet(e.before.data.map, e.key, e.value)
          /\ e.after.dirty
          /\ e.after.file = e.before.file

FlushWritesIffDirty ==
  \A i \in 1..Len(tmLog) :
    LET e == tmLog[i]
    IN  e.op = "flush" =>
          /\ e.wrote = e.before.dirty
          /\ e.after.file = (IF e.before.dirty THEN JsonDump(e.before.data) ELSE e.before.file)
          /\ ~e.after.dirty
          /\ e.after.data = e.before.data

NoSetBetween(i, j) == \A m \in (i + 1)..(j - 1) : tmLog[m].op # "set" \/ ~Completed(tmLog[m])

SecondFlushWritesNothing ==
  \A i, j \in 1..Len(tmLog) :
    (i < j /\ tmLog[i].op = "flush" /\ tmLog[j].op = "flush" /\ NoSetBetween(i, j))
      => ~tmLog[j].wrote

\* Between calls, a clean memory holds what its file holds: loading the file
\* again gives the store in memory.
CleanMeansSaved ==
  (tmPhase = "ready" /\ ~tmDirty) => Load(tmFile).data = tmData

CorruptKinds == {"absent", "unparseable", "undecodable", "array", "nonstring"}

\* C25: built over an absent or corrupt file, construction completes, the
\* store is empty when it does, and every later get and set completes.
C25_ConstructionNeverFails ==
  (tmBuiltFrom \in CorruptKinds /\ tmPhase \notin {"off", "unbuilt"}) =>
    /\ tmPhase # "failed"
    /\ tmLog = << >> => tmData = DataOf("dict", EmptyDict)
    /\ \A i \in 1..Len(tmLog) : Completed(tmLog[i])

(***************************************************************************)
(* Properties of the durable memory shared by threads.                     *)
(***************************************************************************)
\* The steps that touch _data, _dirty or the file.
CriticalPcs ==
  {"get_read", "set_assign", "set_mark", "flush_check", "flush_open", "flush_dump",
   "flush_clear"}

InCritical(t) == tmThread[t].pc \in CriticalPcs

MutualExclusion ==
  /\ \A t, u \in Threads : (InCritical(t) /\ InCritical(u)) => t = u
  /\ \A t \in Threads : InCritical(t) <=> tmLock = t

AllReturned == \A t \in Threads : AtPc(t, "idle")

NothingLostOrTorn ==
  AllReturned =>
    /\ ~tmDirty
    /\ tmFile = JsonDump(tmData)
    /\ \A key \in DOMAIN tmIntended :
         /\ key \in DOMAIN tmData.map /\ tmData.map[key] = tmIntended[key]
         /\ key \in DOMAIN tmFile.map /\ tmFile.map[key] = tmIntended[key]

\* C26: the read of get, the assignment of set and the file write of flush
\* never run in two threads at once, and once every call has returned the map
\* and the file both hold every key that was set with the value assigned
\* last, the file is whole and the dirty flag is clear.
C26_ConcurrentSetsKeepEverything ==
  /\ MutualExclusion
  /\ NothingLostOrTorn

\* Both threads have set a different key and both calls have returned.
C26_Witness ==
  /\ AllReturned
  /\ \A t \in Threads : tmThread[t].calls = 1 /\ tmThread[t].value # << >>
  /\ tmThread[1].key # tmThread[2].key
  /\ Cardinality(DOMAIN tmIntended) = 2

(***************************************************************************)
(* Properties of the session cache shared by threads.                      *)
(***************************************************************************)
\* A get that began after a set on its key had returned, with no set on that
\* key under way then or begun since.
ReadsAfterWrite(e) == e.clean /\ e.want.has

\* C27: a get(k) that starts after set(k, v) has returned, with no later set
\* on k, returns v, whatever the interleaving of the steps of the calls.
C27_ReadYourWrites ==
  \A i \in 1..Len(scLog) : ReadsAfterWrite(scLog[i]) => scLog[i].result = scLog[i].want

(***************************************************************************)
(* Similarity and grouping.                                                *)
(***************************************************************************)
\* The similarity of two input texts, both normalized, against the threshold.
SimilarTexts(i, j) ==
  SequenceRatioAtLeast(Strip(dTexts[i]), Strip(dTexts[j]), SimilarityThresholdPermille)

SameGroup(i, j) ==
  \E g \in 1..Len(dResult.groups) : {i, j} \subseteq SeqToSet(dResult.groups[g])

\* C28: after deduplicate_texts with threshold 0.985, two texts are in the
\* same group exactly when their similarity ratio is at least 0.985.
C28_GroupedIffSimilar ==
  dDone =>
    \A i, j \in 1..Len(dTexts) :
      i < j => (SimilarTexts(i, j) <=> SameGroup(i, j))

(***************************************************************************)
(* Bookkeeping of the output slots.                                        *)
(***************************************************************************)
IsPending(indexes) == \E k \in 1..Len(pending) : pending[k].indexes = indexes

\* The writes of the cache-resolution loop to slot i: one for every group
\* holding i that was resolved from cache.
CacheWritesTo(i) ==
  Cardinality({g \in 1..Len(dedup.groups) :
                 i \in SeqToSet(dedup.groups[g]) /\ ~IsPending(dedup.groups[g])})

\* The writes of the scatter loops to slot i: for every entry scattered, the
\* places of i in its indexes.
ScatterWritesTo(i) ==
  Cardinality({p \in (1..Len(writes)) \X (1..Len(pending)) \X (1..Len(texts)) :
                 /\ pending[p[2]].indexes[1] = writes[p[1]].index
                 /\ p[3] \in 1..Len(pending[p[2]].indexes)
                 /\ pending[p[2]].indexes[p[3]] = i})

\* C29: when translate reaches its verification every output slot has been
\* written exactly once, from cache or by the scatter of one batch, so no
\* slot is unwritten and the 'Missing translations' error is never raised.
C29_EverySlotWrittenOnce ==
  /\ pc \in {"verifying", "done"} =>
       \A i \in 1..Len(texts) :
         /\ CacheWritesTo(i) + ScatterWritesTo(i) = 1
         /\ resolved[i].has
  /\ raised.kind # "missing"

\* A finished run with one slot filled from cache and two slots of one group
\* filled by a scatter.
C29_Witness ==
  /\ pc = "done"
  /\ Len(texts) = 3
  /\ \E i \in 1..3 : CacheWritesTo(i) = 1
  /\ \E i, j \in 1..3 : i # j /\ ScatterWritesTo(i) = 1 /\ ScatterWritesTo(j) = 1
                        /\ \E k \in 1..Len(pending) : {i, j} \subseteq SeqToSet(pending[k].indexes)

(***************************************************************************)
(* Order of the batches.                                                   *)
(***************************************************************************)
RECURSIVE EntriesBefore(_)
\* The number of entries in the batches before batch k.
EntriesBefore(k) == IF k <= 1 THEN 0 ELSE Len(batches[k - 1]) + EntriesBefore(k - 1)

\* The value of the latest scatter write under a key.
LastWritten(key) ==
  LET at == {w \in 1..Len(writes) : writes[w].key = key}
  IN  writes[CHOOSE w \in at : \A x \in at : x <= w].value

\* Every entry of the batches before batch k has been cached and scattered:
\* both tiers and the file hold its translation and its slots are written.
CachedAndScatteredBefore(k) ==
  \A b \in 1..(k - 1) : \A e \in 1..Len(batches[b]) :
    LET entry == batches[b][e]
        w == EntriesBefore(b) + e
    IN  /\ w <= Len(writes)
        /\ writes[w].key = entry.cache_key
        /\ writes[w].index = entry.indexes[1]
        /\ DictGet(sessStore, entry.cache_key) = Some(LastWritten(entry.cache_key))
        /\ DictGet(memData, entry.cache_key) = Some(LastWritten(entry.cache_key))
        /\ DictGet(memFile, entry.cache_key) = Some(LastWritten(entry.cache_key))
        /\ \A i \in SeqToSet(entry.indexes) : resolved[i] = Some(writes[w].value)

\* Nothing of batch k or of a later batch has been cached or scattered.
NothingWrittenFrom(k) == Len(writes) = EntriesBefore(k)

\* translate_texts is being invoked.
BackendCalled == invocations' = invocations + 1

\* translate has raised out of _translate_pending: retries exhausted or a
\* reply of the wrong size.
FailedOnBatch == pc = "failed" /\ raised.kind # "missing"

\* C30: batches go to the backend one at a time in planner order, a call for
\* a batch being made only when every earlier batch has been cached and
\* scattered and with that batch's texts; when a batch fails for good the
\* translations of all earlier batches are in both cache tiers, nothing of
\* that batch or a later one has been sent on or written, and translate
\* raises and returns nothing.
C30_BatchesInOrder ==
  /\ [][BackendCalled =>
          /\ batchNo \in 1..Len(batches)
          /\ batches = BuildBatches(pending, batchCharLimit, batchSize)
          /\ sent' = sent \cup SeqToSet(EntryTexts(batches[batchNo]))
          /\ CachedAndScatteredBefore(batchNo)
          /\ NothingWrittenFrom(batchNo)]_vars
  /\ [][batchNo' # batchNo => batchNo' = batchNo + 1 /\ Len(writes') = EntriesBefore(batchNo')]_vars
  /\ [](FailedOnBatch =>
          /\ CachedAndScatteredBefore(batchNo)
          /\ NothingWrittenFrom(batchNo)
          /\ \A b \in (batchNo + 1)..Len(batches) :
               \A e \in 1..Len(batches[b]) :
                 \A i \in SeqToSet(batches[b][e].indexes) : ~resolved[i].has
          /\ raised # NoError
          /\ output = << >>)
  /\ [][FailedOnBatch => UNCHANGED vars]_vars

\* The second of three batches has failed for good after the first was
\* translated.
C30_Witness ==
  /\ FailedOnBatch
  /\ Len(batches) = 3
  /\ batchNo = 2
  /\ Len(writes) = 1
  /\ DictGet(sessStore, batches[1][1].cache_key) = Some(writes[1].value)

(***************************************************************************)
(* What translate_texts of the racing backend hands to its caller.         *)
(***************************************************************************)
\* C31: translate_texts never raises, whatever fails (cancellation aside),
\* and what it returns has one entry per text of the request.
C31_NeverRaises ==
  /\ gRaised \in {NoGoogleError, "CancelledError"}
  /\ gReturned.has => Len(gReturned.val) = Len(gLens)

(***************************************************************************)
(* The cache keys of the entries sent to the backend.                      *)
(***************************************************************************)
\* The places of a pending entry in the batches.
PlacesOf(k) ==
  {p \in (1..Len(batches)) \X (1..Len(pending)) :
     p[2] <= Len(batches[p[1]]) /\ batches[p[1]][p[2]] = pending[k]}

\* C32: the pending entries of a translate call have pairwise distinct cache
\* keys and, once the batches are built, each pending entry is in exactly
\* one batch, so no key goes to the backend twice unless a batch is retried.
C32_NoKeySubmittedTwice ==
  /\ \A k, l \in 1..Len(pending) : k # l => pending[k].cache_key # pending[l].cache_key
  /\ pc \in {"translating", "sleeping", "checking", "verifying", "done", "failed"} =>
       \A k \in 1..Len(pending) : Cardinality(PlacesOf(k)) = 1

(***************************************************************************)
(* The endpoints of a race.                                                *)
(***************************************************************************)
\* C33: with two or more endpoints configured, the two requests raced for a
\* single text go to two different endpoints.
C33_RacedEndpointsDiffer ==
  (gN >= 2 /\ gPhase = "single") =>
    \A i \in 1..Len(gTask) :
      Len(gTask[i].race.eps) = RACE_SIZE => gTask[i].race.eps[1] # gTask[i].race.eps[2]

(***************************************************************************)
(* The failure counters and the requests.                                  *)
(***************************************************************************)
OthersUntouched(ep) == \A e \in 1..gN : e # ep => gFailures'[e] = gFailures[e]

\* Request j of a race has completed in this step.
CompletesIn(race, raceAfter, j) ==
  /\ j <= Len(raceAfter.st)
  /\ race.st[j] = "inflight"
  /\ raceAfter.st[j] = "done"

\* Request j of a race is cancelled in this step.
CancelledIn(race, raceAfter, j) ==
  /\ j <= Len(raceAfter.st)
  /\ race.st[j] = "inflight"
  /\ raceAfter.st[j] = "cancelled"

\* C34: a primary request that fails (status other than 200, a body without
\* segments, an exception) adds one to the counter of its own endpoint, a
\* request that succeeds sets it to zero, a cancelled request leaves it as it
\* is, no other counter changes with it, and no counter is negative.
C34_CountersFollowRequests ==
  /\ [][\A j \in 1..Len(gSep.eps) :
          /\ CompletesIn(gSep, gSep', j) =>
               /\ gSep'.res[j] = "usable" => gFailures'[gSep.eps[j]] = 0
               /\ (gSep'.res[j] = "nothing" /\ gSep'.parts[j] = 0) =>
                    gFailures'[gSep.eps[j]] = gFailures[gSep.eps[j]] + 1
               /\ OthersUntouched(gSep.eps[j])
          /\ CancelledIn(gSep, gSep', j) => gFailures' = gFailures]_vars
  /\ [][\A i \in 1..Len(gTask) : \A j \in 1..Len(gTask[i].race.eps) :
          i <= Len(gTask') =>
            /\ CompletesIn(gTask[i].race, gTask'[i].race, j) =>
                 /\ gTask'[i].race.res[j] = "usable" => gFailures'[gTask[i].race.eps[j]] = 0
                 /\ gTask'[i].race.res[j] = "nothing" =>
                      gFailures'[gTask[i].race.eps[j]] \in {0, gFailures[gTask[i].race.eps[j]] + 1}
                 /\ OthersUntouched(gTask[i].race.eps[j])
            /\ CancelledIn(gTask[i].race, gTask'[i].race, j) => gFailures' = gFailures]_vars
  /\ [](\A e \in 1..gN : gFailures[e] >= 0)

(***************************************************************************)
(* The instances one _translate_via_lingva call tries.  While the call     *)
(* runs, tried holds the instances of its earlier turns.                   *)
(***************************************************************************)
AllLingvaInstances == 0..(LINGVA_INSTANCES - 1)

\* Task i makes the last turn of its loop in this step and the call returns
\* without a translation.
LingvaGivesUp(i) ==
  /\ i <= Len(gTask')
  /\ gTask[i].stage = "lingva"
  /\ gTask[i].lingva + 1 = LINGVA_INSTANCES
  /\ gTask'[i].lingva = LINGVA_INSTANCES
  /\ gTask'[i].stage = "lastresort"

\* C35: a _translate_via_lingva call that goes through its whole loop
\* without a result has tried every configured instance exactly once, also
\* when the calls of several texts run at the same time.
C35_EveryInstanceOnce ==
  [][\A i \in 1..Len(gTask) :
       LingvaGivesUp(i) =>
         LET all == Append(gTask[i].tried, GetNextLingva(gLingvaIndex))
         IN  /\ Len(all) = LINGVA_INSTANCES
             /\ SeqToSet(all) = AllLingvaInstances]_vars

(***************************************************************************)
(* The packing rule of the planners, read off the batches they produce.    *)
(***************************************************************************)
\* Entry k of a batch was added to the k - 1 entries before it: they were
\* within both limits together with it.
AddedWithinLimits(lens, max_chars, max_items) ==
  \A k \in 2..Len(lens) :
    /\ SumOf(SubSeq(lens, 1, k)) <= max_chars
    /\ k - 1 < max_items

\* A batch was closed before the entry of length next: the entry did not fit.
ClosedBecauseFull(lens, next, max_chars, max_items) ==
  SumOf(lens) + next > max_chars \/ Len(lens) >= max_items

Lens(batch) == [i \in 1..Len(batch) |-> Len(batch[i])]

GreedyPacking(bs, max_chars, max_items) ==
  /\ \A b \in 1..Len(bs) :
       /\ bs[b] # << >>
       /\ AddedWithinLimits(Lens(bs[b]), max_chars, max_items)
       /\ (\E k \in 1..Len(bs[b]) : Len(bs[b][k]) > max_chars) => Len(bs[b]) = 1
  /\ \A b \in 1..(Len(bs) - 1) :
       ClosedBecauseFull(Lens(bs[b]), Len(bs[b + 1][1]), max_chars, max_items)

ExampleItems == << <<"a", "b", "c", "d", "e">>, <<"f", "g", "h", "i", "j">>, <<"k">> >>
ExampleEntries ==
  [i \in 1..Len(ExampleItems) |->
     PendingEntry(ExampleItems[i], <<i>>, MakeCacheKey(ExampleItems[i], SourceLang, TargetLang))]

\* C36: a batch is closed before an entry exactly when it is not empty and
\* the entry would take it over maxChars or it holds maxItems entries
\* already: within a batch every entry was added within the limits, every
\* batch but the last could not take the entry after it, an entry longer than
\* maxChars is alone in its batch, and with maxChars 10 and maxItems 4
\* entries of lengths 5, 5, 1 give the batches [[first, second], [third]].
C36_GreedyPacking ==
  /\ pChunked => GreedyPacking(pChunks, pMaxChars, pMaxItems)
  /\ pBuilt => GreedyPacking([b \in 1..Len(pBatches) |-> EntryTexts(pBatches[b])],
                             pMaxChars, pMaxItems)
  /\ pChunked =>
       ChunkByCharLimit(ExampleItems, 10, 4)
         = << <<ExampleItems[1], ExampleItems[2]>>, <<ExampleItems[3]>> >>
  /\ pBuilt =>
       BuildBatches(ExampleEntries, 10, 4)
         = << <<ExampleEntries[1], ExampleEntries[2]>>, <<ExampleEntries[3]>> >>

\* Both planners ran on entries of lengths 2, 2, 1 with maxChars 4 and closed
\* the first batch when it was exactly full.
C36_Witness ==
  /\ pChunked /\ pBuilt
  /\ pMaxChars = 4 /\ pMaxItems = 3
  /\ Lens(pItems) = <<2, 2, 1>>
  /\ pChunks = << <<pItems[1], pItems[2]>>, <<pItems[3]>> >>
  /\ Len(pBatches) = 2 /\ Len(pBatches[1]) = 2

(***************************************************************************)
(* The retry schedule.                                                      *)
(***************************************************************************)
EventsOfKind(kind) == {p \in 1..Len(rtEvents) : rtEvents[p].kind = kind}

AttemptAt(k) == CHOOSE p \in EventsOfKind("attempt") : rtEvents[p].n = k

\* attempt k has failed and _retry has handled the failure
HandledFailure(k) ==
  /\ k \in 1..rtAttempt
  /\ k < rtAttempt \/ rtPc \in {"sleeping", "loop", "raised"}

RECURSIVE FracPower(_, _)
FracPower(f, e) == IF e = 0 THEN Fraction(1, 1) ELSE FracMul(f, FracPower(f, e - 1))

SleepRank(p) == Cardinality({q \in EventsOfKind("sleep") : q <= p})

OneSleepBetweenAttempts ==
  /\ \A k \in 1..rtAttempt : \E p \in EventsOfKind("attempt") : rtEvents[p].n = k
  /\ \A k \in 1..(rtAttempt - 1) :
       Cardinality({p \in EventsOfKind("sleep") : AttemptAt(k) < p /\ p < AttemptAt(k + 1)}) = 1
  /\ \A p \in EventsOfKind("sleep") : p > AttemptAt(1)

NoSleepAfterFinalFailure ==
  /\ \A p \in EventsOfKind("sleep") : SleepRank(p) < rtPolicy.max_attempts
  /\ rtPc = "raised" =>
       /\ rtAttempt = rtPolicy.max_attempts
       /\ \A p \in EventsOfKind("sleep") : p < AttemptAt(rtAttempt)
       /\ rtEvents[Len(rtEvents)].kind = "raise"

DelaysGrowByFactor ==
  \A p \in EventsOfKind("sleep") :
    /\ FracEq(rtEvents[p].delay, FracPower(rtPolicy.backoff_factor, SleepRank(p) - 1))
    /\ FracLe(Fraction(0, 1), rtEvents[p].jitter)
    /\ FracLe(rtEvents[p].jitter, rtPolicy.backoff_jitter)

OneLogPerFailure ==
  rtLogCb =>
    /\ \A k \in 1..rtAttempt :
         Cardinality({p \in EventsOfKind("log") : rtEvents[p].n = k})
           = IF HandledFailure(k) THEN 1 ELSE 0
    /\ \A p \in EventsOfKind("log") : p = AttemptAt(rtEvents[p].n) + 1
    /\ \A p \in EventsOfKind("raise") : rtEvents[p - 1].kind = "log"

\* C37: one sleep separates two consecutive attempts and none follows the
\* final failed attempt; the sleeps' base delays are 1, backoff_factor,
\* backoff_factor^2, ..., each with a jitter between 0 and backoff_jitter; a
\* given log_cb is called once per failed attempt, right after it, the final
\* one included, before the error is raised again.
C37_RetrySchedule ==
  /\ OneSleepBetweenAttempts
  /\ NoSleepAfterFinalFailure
  /\ DelaysGrowByFactor
  /\ OneLogPerFailure

C37_Witness ==
  /\ rtPc = "raised"
  /\ rtLogCb
  /\ rtAttempt >= 3
  /\ \E p \in EventsOfKind("sleep") : rtEvents[p].jitter.num > 0
  /\ \E p \in EventsOfKind("sleep") : ~FracEq(rtEvents[p].delay, INITIAL_DELAY)

(***************************************************************************)
(* _retry around the sub-batching backend.                                  *)
(***************************************************************************)
SentIn(call, offset) ==
  {p \in 1..Len(bkSent) : bkSent[p].call = call /\ bkSent[p].offset = offset}

SentFor(offset) == {p \in 1..Len(bkSent) : bkSent[p].offset = offset}

SubBatchOffsets == {o \in 0..Len(bkTexts) : o % WEB_BATCH_SIZE = 0 /\ o < Len(bkTexts)}

\* the translate_texts call of _retry's attempt `call` is over
CallOver(call) == call < rtAttempt \/ bkPc \in {"returned", "raised"}

\* C38: around the scraped backend, one translate_texts call sends at most
\* WEB_MAX_RETRIES requests for a sub-batch, and raises once that many have
\* failed; _retry makes at most max_attempts calls, each starting at the
\* first sub-batch with an empty result list; so a sub-batch is requested at
\* most max_attempts * WEB_MAX_RETRIES times before translate fails.
C38_NestedRetriesBounded ==
  bkVariant = "deepl_web" =>
    /\ rtAttempt <= rtPolicy.max_attempts
    /\ \A call \in 1..rtAttempt, o \in SubBatchOffsets :
         /\ Cardinality(SentIn(call, o)) <= WEB_MAX_RETRIES
         /\ (/\ Cardinality(SentIn(call, o)) = WEB_MAX_RETRIES
             /\ \A p \in SentIn(call, o) : ~bkSent[p].ok)
              => CallOver(call) /\ (call = rtAttempt => bkPc = "raised")
    /\ \A p \in 1..Len(bkSent) :
         (p = 1 \/ bkSent[p - 1].call # bkSent[p].call) => bkSent[p].offset = 0
    /\ (bkPc = "requesting" /\ bkOffset = 0) => bkResults = << >>
    /\ \A o \in SubBatchOffsets :
         Cardinality(SentFor(o)) <= rtPolicy.max_attempts * WEB_MAX_RETRIES
    /\ rtPc = "raised" => rtAttempt = rtPolicy.max_attempts /\ bkPc = "raised"

C38_Witness ==
  /\ bkVariant = "deepl_web"
  /\ rtPc = "raised"
  /\ rtPolicy.max_attempts >= 2
  /\ \E o \in SubBatchOffsets :
       /\ o > 0
       /\ Cardinality(SentFor(o)) = rtPolicy.max_attempts * WEB_MAX_RETRIES
       /\ Cardinality(SentFor(0)) = rtPolicy.max_attempts

(***************************************************************************)
(* The sub-batches of the scraped backend.                                  *)
(***************************************************************************)
RECURSIVE ConcatReplies(_)
ConcatReplies(replies) ==
  IF replies = << >>
  THEN << >>
  ELSE ProviderTranslations(Head(replies).got) \o ConcatReplies(Tail(replies))

\* C39: the scraped backend requests consecutive sub-batches of at most
\* WEB_BATCH_SIZE texts, from the first text on; a request is for the next
\* sub-batch exactly when the request before it succeeded, and for the same
\* one otherwise; and the list translate_texts returns is the concatenation
\* of the translations the provider gave, in that order.
C39_SubBatchesInOrder ==
  bkVariant = "deepl_web" =>
    /\ \A r \in 1..Len(bkReplies) : bkReplies[r].sent \in 1..WEB_BATCH_SIZE
    /\ \A p \in 1..Len(bkSent) :
         /\ bkSent[p].offset \in SubBatchOffsets
         /\ p = 1 => bkSent[p].offset = 0
         /\ p > 1 => bkSent[p].offset = IF bkSent[p - 1].ok
                                        THEN bkSent[p - 1].offset + WEB_BATCH_SIZE
                                        ELSE bkSent[p - 1].offset
    /\ bkPc = "returned" =>
         /\ \A o \in SubBatchOffsets : \E p \in SentFor(o) : bkSent[p].ok
         /\ bkResults = ConcatReplies(bkReplies)

(***************************************************************************)
(* The qualifying endpoints.                                                *)
(***************************************************************************)
LeastCount == MinOf({gFailures[e] : e \in 1..gN})

Qualifying == {Available(gFailures, gN)[k] : k \in 1..Len(Available(gFailures, gN))}

\* whatever the cursor, the next _get_next_endpoint call skips lines 96-98
ResetBranchSkipped ==
  \A index \in 0..(gN - 1) :
    LET got == GetNextEndpoint(gFailures, index, gN)
    IN  got.failures = gFailures /\ got.available = Available(gFailures, gN)

\* one step moves a counter up by one, back to 0, or not at all
CountersMoveOneByOne ==
  \A e \in 1..gN : gFailures'[e] \in {gFailures[e], gFailures[e] + 1, 0}

\* C40: in every reachable state the endpoints whose failure count is at
\* most the least count plus FAILURE_SLACK include an endpoint with the least
\* count, so _get_next_endpoint never clears the counters: they change only
\* when a request to an endpoint fails or succeeds.
C40_QualifyingNeverEmpty ==
  /\ [](gPhase # "off" =>
         /\ \E e \in Qualifying : gFailures[e] = LeastCount
         /\ ResetBranchSkipped
         /\ \A k \in 1..Len(gPicks) :
              gPicks[k].available # << >> /\ gPicks[k].failures = gFailures)
  /\ [][gPhase # "off" => CountersMoveOneByOne]_vars

C40_Witness ==
  /\ gPhase # "off"
  /\ Len(gPicks) >= 2
  /\ Cardinality(Qualifying) = 1
  /\ \E e \in 1..gN : gFailures[e] = LeastCount + FAILURE_SLACK + 1

====
